---- MODULE Spec2Model ----
(***************************************************************************)
(* Messaging and notification core of the kajsivaka backend: group         *)
(* directory (groupChatController.js), device registry (fcm routes),       *)
(* conversation store (chatController.js) and notification dispatcher      *)
(* (services/notificationService, config/firebase).                        *)
(*                                                                         *)
(* Every express handler is an async function: each `await db.execute`     *)
(* is a suspension point, so a handler is a sequence of atomic storage     *)
(* steps and the steps of different requests interleave.  A request slot   *)
(* (an element of Req) carries the handler's parameters, its position and  *)
(* the locals it read from storage.                                        *)
(***************************************************************************)
EXTENDS Integers, Sequences, FiniteSets, TLC

\* ------------------------------------------------------------------ bounds
NumUsers == 3
MaxGroups == 1
NumReq == 2
MaxMembersLen == 2
NumTokens == 2

Users == 1..NumUsers
\* an id that resolves to no row of `users`
NoUser == NumUsers + 1
GroupIds == 1..MaxGroups
Req == 1..NumReq

\* ------------------------------------------------------- group directory
VARIABLES
  chat_groups,         \* set of group ids: rows of chat_groups
  chat_group_members,  \* set of [group_id, user_id, is_admin]: rows of chat_group_members
  nextGroupId,         \* AUTO_INCREMENT counter of chat_groups
  greq                 \* Req -> group-directory request in flight in that slot

groupVars == <<chat_groups, chat_group_members, nextGroupId, greq>>

\* --------------------------------------------------------- device registry
VARIABLES
  user_fcm_tokens,     \* set of [user_id, fcm_token]: rows of user_fcm_tokens
  treq                 \* Req -> token registration in flight in that slot

tokenVars == <<user_fcm_tokens, treq>>

\* ------------------------------------------------------ conversation store
VARIABLES
  friends,                  \* set of <<user_id, friend_id>>: rows of friends
  friend_requests,          \* rows of friend_requests: sender_id, receiver_id, status
  chat_messages,            \* set of direct message rows
  chat_group_messages,      \* set of group message rows
  chat_group_message_reads, \* set of [message_id, user_id]
  nextMsgId,                \* AUTO_INCREMENT counter of chat_messages
  nextGroupMsgId,           \* AUTO_INCREMENT counter of chat_group_messages
  now,                      \* NOW() of the database, whole seconds
  sreq,                     \* Req -> messaging request in flight in that slot
  bcast                     \* the new-event / new-venue broadcast in progress

chatVars == <<friend_requests, friends, chat_messages, chat_group_messages, chat_group_message_reads,
              nextMsgId, nextGroupMsgId, now, sreq, bcast>>

vars == <<groupVars, tokenVars, chatVars>>

\* ---- javascript values: a route parameter is a string, the id that the
\* ---- auth middleware decodes from the JWT is a number
RouteParam(n) == [type |-> "string", val |-> n]
JwtId(n) == [type |-> "number", val |-> n]
\* `a === b`: no coercion, a string never equals a number
StrictEquals(a, b) == a.type = b.type /\ a.val = b.val

\* ---- queries on chat_group_members
MemberIdsIn(rows, g) == {m.user_id : m \in {x \in rows : x.group_id = g}}
AdminIdsIn(rows, g) == {m.user_id : m \in {x \in rows : x.group_id = g /\ x.is_admin}}
MemberIds(g) == MemberIdsIn(chat_group_members, g)
AdminIds(g) == AdminIdsIn(chat_group_members, g)
IsMember(g, u) == u \in MemberIds(g)
\* an admin lookup that lets every user administer a group without members
AdminOrOrphan(g, u) == u \in AdminIds(g) \/ (g \in chat_groups /\ MemberIds(g) = {})
IsAdmin(g, u) == u \in AdminIds(g)

\* a membership row written with is_admin = 1 whatever was asked for
RowAsAdmin(g, u, a) == [group_id |-> g, user_id |-> u, is_admin |-> TRUE]

Row(g, u, a) == [group_id |-> g, user_id |-> u, is_admin |-> a]

\* ---- request slots.  A slot holds one request at a time: greq[r] is its
\* record while it serves an operation of the group directory, sreq[r] while
\* it serves a messaging operation
IdleG ==
  [op |-> "idle", pc |-> "idle", userId |-> 0, groupId |-> 0, memberId |-> 0,
   members |-> <<>>, isAdmin |-> FALSE, admins |-> 0, first |-> 0,
   notified |-> {}, status |-> 0]

\* what is left of a request once res.status(code).json(..) was called: the
\* operation, the group it was about, the member it promoted, the users
\* sendAddedToGroupNotification was called for, the response
Respond(q, code) ==
  [IdleG EXCEPT !.op = q.op, !.pc = "done", !.groupId = q.groupId,
                !.first = q.first, !.notified = q.notified, !.status = code]

MemberLists ==
  UNION {[1..n -> Users \cup {NoUser}] : n \in 0..MaxMembersLen}

InitGroup ==
  /\ chat_groups = {}
  /\ chat_group_members = {}
  /\ nextGroupId = 1
  /\ greq = [r \in Req |-> IdleG]

\* ------------------------------------------------------------ createGroup
\* rows inserted by the loop `for (const memberId of members)`, in order;
\* the creator is skipped, an id without a users row is skipped
RECURSIVE AddedMembers(_, _, _)
AddedMembers(list, creator, i) ==
  IF i > Len(list) THEN <<>>
  ELSE IF list[i] = creator \/ list[i] \notin Users
       THEN AddedMembers(list, creator, i + 1)
       ELSE <<list[i]>> \o AddedMembers(list, creator, i + 1)

\* the second insert of the same (group_id, user_id) violates
\* UNIQUE KEY unique_group_member and throws
HasDuplicate(s) == \E i, j \in 1..Len(s) : i < j /\ s[i] = s[j]

Range(s) == {s[i] : i \in 1..Len(s)}

\* a request arrives: name and members pass the validation of line 13
CreateGroupStart(r) ==
  /\ greq[r].pc \in {"idle", "done"}
  /\ sreq[r].pc \in {"idle", "done"}
  /\ nextGroupId + Cardinality({q \in Req : greq[q].pc = "cg_tx"}) <= MaxGroups
  /\ \E u \in Users, ms \in MemberLists :
       greq' = [greq EXCEPT ![r] =
                  [IdleG EXCEPT !.op = "createGroup", !.pc = "cg_tx",
                                !.userId = u, !.members = ms]]
  /\ UNCHANGED <<chat_groups, chat_group_members, nextGroupId, tokenVars, chatVars>>

\* beginTransaction .. commit.  The rows written inside the transaction are
\* invisible to other connections until the commit, so the transaction is one
\* step; fail = TRUE is a storage error at any statement before or at the
\* commit, which rolls everything back (the AUTO_INCREMENT value is consumed).
CreateGroupTx(r) ==
  /\ greq[r].pc = "cg_tx"
  /\ LET q == greq[r]
         g == nextGroupId
         added == AddedMembers(q.members, q.userId, 1)
     IN \E fail \in BOOLEAN :
          /\ nextGroupId' = g + 1
          /\ IF fail \/ HasDuplicate(added)
             THEN /\ greq' = [greq EXCEPT ![r] = Respond([q EXCEPT !.groupId = g], 500)]
                  /\ UNCHANGED <<chat_groups, chat_group_members>>
             ELSE /\ chat_groups' = chat_groups \cup {g}
                  /\ chat_group_members' = chat_group_members
                        \cup {Row(g, q.userId, TRUE)}
                        \cup {Row(g, u, FALSE) : u \in Range(added)}
                  /\ greq' = [greq EXCEPT ![r] = [q EXCEPT !.groupId = g, !.pc = "cg_select"]]
  /\ UNCHANGED <<tokenVars, chatVars>>

\* a loop that notifies every id of the request's list
NotifyListed(list, creator) == Range(list)

\* for (const memberId of addedMembers)
\*   notificationService.sendAddedToGroupNotification(groupId, memberId, userId)
NotifyAdded(list, creator) == Range(AddedMembers(list, creator, 1))

\* SELECT * FROM chat_groups WHERE id = ? after the commit, the connection is
\* released, the dispatcher is called for each added member without await,
\* then 201
CreateGroupSelect(r) ==
  /\ greq[r].pc = "cg_select"
  /\ LET q == greq[r] IN
       greq' = [greq EXCEPT ![r] =
                  Respond([q EXCEPT !.notified = NotifyAdded(q.members, q.userId)], 201)]
  /\ UNCHANGED <<chat_groups, chat_group_members, nextGroupId, tokenVars, chatVars>>

\* --------------------------------------------------------- addGroupMember
AddMemberStart(r) ==
  /\ greq[r].pc \in {"idle", "done"}
  /\ sreq[r].pc \in {"idle", "done"}
  /\ \E u \in Users, g \in GroupIds, m \in Users :
       greq' = [greq EXCEPT ![r] =
                  [IdleG EXCEPT !.op = "addGroupMember", !.pc = "ag_admin",
                                !.userId = u, !.groupId = g, !.memberId = m]]
  /\ UNCHANGED <<chat_groups, chat_group_members, nextGroupId, tokenVars, chatVars>>

\* SELECT ... WHERE group_id = ? AND user_id = ? AND is_admin = 1
AddMemberCheckAdmin(r) ==
  /\ greq[r].pc = "ag_admin"
  /\ LET q == greq[r] IN
       greq' = [greq EXCEPT ![r] =
                  IF IsAdmin(q.groupId, q.userId)
                  THEN [q EXCEPT !.pc = "ag_exist"]
                  ELSE Respond(q, 403)]
  /\ UNCHANGED <<chat_groups, chat_group_members, nextGroupId, tokenVars, chatVars>>

\* SELECT ... WHERE group_id = ? AND user_id = ?  (the member to add)
AddMemberCheckExisting(r) ==
  /\ greq[r].pc = "ag_exist"
  /\ LET q == greq[r] IN
       greq' = [greq EXCEPT ![r] =
                  IF IsMember(q.groupId, q.memberId)
                  THEN Respond(q, 400)
                  ELSE [q EXCEPT !.pc = "ag_insert"]]
  /\ UNCHANGED <<chat_groups, chat_group_members, nextGroupId, tokenVars, chatVars>>

\* INSERT INTO chat_group_members ... is_admin 0.  The insert throws on the
\* unique key (group_id, user_id) and on the foreign key to chat_groups.
\* After it sendAddedToGroupNotification(groupId, memberId, userId) is called
\* without await, then 200.
AddMemberInsert(r) ==
  /\ greq[r].pc = "ag_insert"
  /\ LET q == greq[r] IN
       IF IsMember(q.groupId, q.memberId) \/ q.groupId \notin chat_groups
       THEN /\ greq' = [greq EXCEPT ![r] = Respond(q, 500)]
            /\ UNCHANGED chat_group_members
       ELSE /\ chat_group_members' =
                 chat_group_members \cup {Row(q.groupId, q.memberId, FALSE)}
            /\ greq' = [greq EXCEPT ![r] =
                          Respond([q EXCEPT !.notified = {q.memberId}], 200)]
  /\ UNCHANGED <<chat_groups, nextGroupId, tokenVars, chatVars>>

\* ------------------------------------------------------ removeGroupMember
RemoveMemberStart(r) ==
  /\ greq[r].pc \in {"idle", "done"}
  /\ sreq[r].pc \in {"idle", "done"}
  /\ \E u \in Users, g \in GroupIds, m \in Users :
       greq' = [greq EXCEPT ![r] =
                  [IdleG EXCEPT !.op = "removeGroupMember", !.pc = "rm_admin",
                                !.userId = u, !.groupId = g, !.memberId = m]]
  /\ UNCHANGED <<chat_groups, chat_group_members, nextGroupId, tokenVars, chatVars>>

RemoveMemberCheckAdmin(r) ==
  /\ greq[r].pc = "rm_admin"
  /\ LET q == greq[r] IN
       greq' = [greq EXCEPT ![r] =
                  IF IsAdmin(q.groupId, q.userId)
                  THEN [q EXCEPT !.pc = "rm_exist"]
                  ELSE Respond(q, 403)]
  /\ UNCHANGED <<chat_groups, chat_group_members, nextGroupId, tokenVars, chatVars>>

\* the target's membership is read, then `if (memberId === userId)` decides
\* whether the only-admin check runs: memberId is req.params.userId (a
\* string), userId is req.userId (the number decoded from the JWT)
SelfRemoval(q) == StrictEquals(RouteParam(q.memberId), JwtId(q.userId))

RemoveMemberCheckExisting(r) ==
  /\ greq[r].pc = "rm_exist"
  /\ LET q == greq[r] IN
       greq' = [greq EXCEPT ![r] =
                  IF ~IsMember(q.groupId, q.memberId)
                  THEN Respond(q, 400)
                  ELSE IF SelfRemoval(q)
                       THEN [q EXCEPT !.pc = "rm_admins"]
                       ELSE [q EXCEPT !.pc = "rm_delete"]]
  /\ UNCHANGED <<chat_groups, chat_group_members, nextGroupId, tokenVars, chatVars>>

\* `if (memberId === userId)`: SELECT the admins, admins.length === 1 -> 400
\* else DELETE FROM chat_group_members WHERE group_id = ? AND user_id = ?
\* (the route parameter is a string and the JWT id a number, so the
\* only-admin branch is never entered after RemoveMemberCheckExisting)
RemoveMemberDelete(r) ==
  /\ greq[r].pc \in {"rm_admins", "rm_delete"}
  /\ LET q == greq[r] IN
       IF q.pc = "rm_admins"
       THEN /\ greq' = [greq EXCEPT ![r] =
                          IF Cardinality(AdminIds(q.groupId)) = 1
                          THEN Respond(q, 400)
                          ELSE [q EXCEPT !.pc = "rm_delete"]]
            /\ UNCHANGED chat_group_members
       ELSE /\ chat_group_members' =
                 {m \in chat_group_members :
                    ~(m.group_id = q.groupId /\ m.user_id = q.memberId)}
            /\ greq' = [greq EXCEPT ![r] = Respond(q, 200)]
  /\ UNCHANGED <<chat_groups, nextGroupId, tokenVars, chatVars>>

\* -------------------------------------------------------------- leaveGroup
LeaveGroupStart(r) ==
  /\ greq[r].pc \in {"idle", "done"}
  /\ sreq[r].pc \in {"idle", "done"}
  /\ \E u \in Users, g \in GroupIds :
       greq' = [greq EXCEPT ![r] =
                  [IdleG EXCEPT !.op = "leaveGroup", !.pc = "lv_member",
                                !.userId = u, !.groupId = g]]
  /\ UNCHANGED <<chat_groups, chat_group_members, nextGroupId, tokenVars, chatVars>>

\* SELECT the caller's membership row; membership[0].is_admin is kept
LeaveGroupCheckMember(r) ==
  /\ greq[r].pc = "lv_member"
  /\ LET q == greq[r] IN
       greq' = [greq EXCEPT ![r] =
                  IF ~IsMember(q.groupId, q.userId)
                  THEN Respond(q, 403)
                  ELSE IF IsAdmin(q.groupId, q.userId)
                       THEN [q EXCEPT !.pc = "lv_admins", !.isAdmin = TRUE]
                       ELSE [q EXCEPT !.pc = "lv_delete"]]
  /\ UNCHANGED <<chat_groups, chat_group_members, nextGroupId, tokenVars, chatVars>>

\* SELECT the admins of the group; admins.length === 1 -> look for a successor
LeaveGroupCheckAdmins(r) ==
  /\ greq[r].pc = "lv_admins"
  /\ LET q == greq[r]
         n == Cardinality(AdminIds(q.groupId))
     IN greq' = [greq EXCEPT ![r] =
                   IF n = 1
                   THEN [q EXCEPT !.pc = "lv_others", !.admins = n]
                   ELSE [q EXCEPT !.pc = "lv_delete", !.admins = n]]
  /\ UNCHANGED <<chat_groups, chat_group_members, nextGroupId, tokenVars, chatVars>>

\* SELECT ... WHERE group_id = ? AND user_id != ?  has no ORDER BY: members[0]
\* is whichever row the storage engine returns first
LeaveGroupReadOthers(r) ==
  /\ greq[r].pc = "lv_others"
  /\ LET q == greq[r]
         others == MemberIds(q.groupId) \ {q.userId}
     IN IF others = {}
        THEN greq' = [greq EXCEPT ![r] = [q EXCEPT !.pc = "lv_delete"]]
        ELSE \E f \in others :
               greq' = [greq EXCEPT ![r] = [q EXCEPT !.pc = "lv_promote", !.first = f]]
  /\ UNCHANGED <<chat_groups, chat_group_members, nextGroupId, tokenVars, chatVars>>

\* a promotion that writes nothing
SetAdminLost(rows, g, u) == rows

\* UPDATE chat_group_members SET is_admin = 1 WHERE group_id = ? AND user_id = ?
SetAdmin(rows, g, u) ==
  {IF m.group_id = g /\ m.user_id = u THEN [m EXCEPT !.is_admin = TRUE] ELSE m : m \in rows}

LeaveGroupPromote(r) ==
  /\ greq[r].pc = "lv_promote"
  /\ LET q == greq[r] IN
       /\ chat_group_members' = SetAdmin(chat_group_members, q.groupId, q.first)
       /\ greq' = [greq EXCEPT ![r] = [q EXCEPT !.pc = "lv_delete"]]
  /\ UNCHANGED <<chat_groups, nextGroupId, tokenVars, chatVars>>

\* DELETE FROM chat_group_members WHERE group_id = ? AND user_id = ?
LeaveGroupDelete(r) ==
  /\ greq[r].pc = "lv_delete"
  /\ LET q == greq[r] IN
       /\ chat_group_members' =
            {m \in chat_group_members :
               ~(m.group_id = q.groupId /\ m.user_id = q.userId)}
       /\ greq' = [greq EXCEPT ![r] = Respond(q, 200)]
  /\ UNCHANGED <<chat_groups, nextGroupId, tokenVars, chatVars>>

\* ------------------------------------------------------------ updateGroup
\* `if (!name)` answers 400 before any query
UpdateGroupStart(r) ==
  /\ greq[r].pc \in {"idle", "done"}
  /\ sreq[r].pc \in {"idle", "done"}
  /\ \E u \in Users, g \in GroupIds, named \in BOOLEAN :
       greq' = [greq EXCEPT ![r] =
                  IF named
                  THEN [IdleG EXCEPT !.op = "updateGroup", !.pc = "ug_admin",
                                     !.userId = u, !.groupId = g]
                  ELSE Respond([IdleG EXCEPT !.op = "updateGroup", !.groupId = g], 400)]
  /\ UNCHANGED <<chat_groups, chat_group_members, nextGroupId, tokenVars, chatVars>>

\* SELECT ... WHERE group_id = ? AND user_id = ? AND is_admin = 1
UpdateGroupCheckAdmin(r) ==
  /\ greq[r].pc = "ug_admin"
  /\ LET q == greq[r] IN
       greq' = [greq EXCEPT ![r] =
                  IF IsAdmin(q.groupId, q.userId)
                  THEN [q EXCEPT !.pc = "ug_update"]
                  ELSE Respond(q, 403)]
  /\ UNCHANGED <<chat_groups, chat_group_members, nextGroupId, tokenVars, chatVars>>

\* UPDATE chat_groups SET name = ?, description = ?, avatar = ? WHERE id = ?,
\* then SELECT * FROM chat_groups WHERE id = ? and 200; the three columns are
\* not represented
UpdateGroupUpdate(r) ==
  /\ greq[r].pc = "ug_update"
  /\ greq' = [greq EXCEPT ![r] = Respond(greq[r], 200)]
  /\ UNCHANGED <<chat_groups, chat_group_members, nextGroupId, tokenVars, chatVars>>

\* a statement outside a transaction rejects: the handler's catch answers 500.
\* For createGroup after the commit the inner catch first calls rollback(),
\* which has nothing left to undo.
DbError(r) ==
  /\ greq[r].pc \notin {"idle", "done", "cg_tx"}
  /\ greq' = [greq EXCEPT ![r] = Respond(greq[r], 500)]
  /\ UNCHANGED <<chat_groups, chat_group_members, nextGroupId, tokenVars, chatVars>>

\* ======================================================== device registry
\* POST /fcm-token.  Token strings: 1..NumTokens are device tokens,
\* BlankToken is a string of white space (truthy, so it passes `!token`),
\* EmptyToken is '' or a missing field.  last_updated is not represented.
Tokens == 1..NumTokens
BlankToken == 0
EmptyToken == -1

TokensOf(u) == {t.fcm_token : t \in {x \in user_fcm_tokens : x.user_id = u}}
TokenRow(u, t) == [user_id |-> u, fcm_token |-> t]

IdleT == [pc |-> "idle", userId |-> 0, token |-> 0, status |-> 0]

InitToken ==
  /\ user_fcm_tokens = {}
  /\ treq = [r \in Req |-> IdleT]

\* a table without the unique index accepts every insert
NoUniqueIndex(rows, u) == FALSE

\* UNIQUE INDEX user_id_UNIQUE (user_id): a second row for the user is refused
UniqueUserViolated(rows, u) == \E x \in rows : x.user_id = u

RegisterTokenStart(r) ==
  /\ treq[r].pc \in {"idle", "done"}
  /\ \E u \in Users \cup {NoUser}, t \in Tokens \cup {BlankToken, EmptyToken} :
       treq' = [treq EXCEPT ![r] =
                  IF t = EmptyToken
                  THEN [pc |-> "done", userId |-> u, token |-> t, status |-> 400]
                  ELSE [pc |-> "tk_user", userId |-> u, token |-> t, status |-> 0]]
  /\ UNCHANGED <<user_fcm_tokens, groupVars, chatVars>>

\* SELECT id FROM users WHERE id = ?
RegisterTokenCheckUser(r) ==
  /\ treq[r].pc = "tk_user"
  /\ treq' = [treq EXCEPT ![r] =
                IF treq[r].userId \in Users
                THEN [@ EXCEPT !.pc = "tk_check"]
                ELSE [@ EXCEPT !.pc = "done", !.status = 404]]
  /\ UNCHANGED <<user_fcm_tokens, groupVars, chatVars>>

\* SELECT id FROM user_fcm_tokens WHERE user_id = ? AND fcm_token = ?
RegisterTokenCheckToken(r) ==
  /\ treq[r].pc = "tk_check"
  /\ treq' = [treq EXCEPT ![r] =
                IF treq[r].token \in TokensOf(treq[r].userId)
                THEN [@ EXCEPT !.pc = "tk_update"]
                ELSE [@ EXCEPT !.pc = "tk_delete"]]
  /\ UNCHANGED <<user_fcm_tokens, groupVars, chatVars>>

\* UPDATE user_fcm_tokens SET last_updated = NOW() WHERE id = ?
RegisterTokenRefresh(r) ==
  /\ treq[r].pc = "tk_update"
  /\ treq' = [treq EXCEPT ![r] = [@ EXCEPT !.pc = "done", !.status = 200]]
  /\ UNCHANGED <<user_fcm_tokens, groupVars, chatVars>>

\* DELETE FROM user_fcm_tokens WHERE user_id = ?
RegisterTokenDelete(r) ==
  /\ treq[r].pc = "tk_delete"
  /\ user_fcm_tokens' = {x \in user_fcm_tokens : x.user_id # treq[r].userId}
  /\ treq' = [treq EXCEPT ![r] = [@ EXCEPT !.pc = "tk_insert"]]
  /\ UNCHANGED <<groupVars, chatVars>>

\* INSERT INTO user_fcm_tokens (user_id, fcm_token, ...); a refused insert is
\* caught by the handler and answered with 500
RegisterTokenInsert(r) ==
  /\ treq[r].pc = "tk_insert"
  /\ IF UniqueUserViolated(user_fcm_tokens, treq[r].userId)
     THEN /\ treq' = [treq EXCEPT ![r] = [@ EXCEPT !.pc = "done", !.status = 500]]
          /\ UNCHANGED user_fcm_tokens
     ELSE /\ user_fcm_tokens' =
               user_fcm_tokens \cup {TokenRow(treq[r].userId, treq[r].token)}
          /\ treq' = [treq EXCEPT ![r] = [@ EXCEPT !.pc = "done", !.status = 200]]
  /\ UNCHANGED <<groupVars, chatVars>>

\* ====================================================== conversation store
\* INTERVAL 10 SECOND of the duplicate check
DedupWindow == 10
\* rows that chat_messages and chat_group_messages hold together at most
MaxMsgs == 2
\* the database clock stops here
MaxClock == 15
\* the clock advances in steps of half the window
TickStep == DedupWindow \div 2

\* message bodies after trim(); EmptyBody is '' or white space only
Bodies == {"hello", "bye"}
EmptyBody == ""

Message(i, s, r, b, t) ==
  [id |-> i, sender_id |-> s, receiver_id |-> r, message |-> b,
   created_at |-> t, is_read |-> FALSE]
GroupMessage(i, g, s, b, t) ==
  [id |-> i, group_id |-> g, sender_id |-> s, message |-> b, created_at |-> t]
\* SELECT id FROM chat_group_messages WHERE group_id = ?
GroupMessageIds(g) == {m.id : m \in {x \in chat_group_messages : x.group_id = g}}

ReadRow(i, u, t) == [message_id |-> i, user_id |-> u, read_at |-> t]

\* ... FROM chat_group_message_reads WHERE message_id = ? AND user_id = ?
HasRead(rows, i, u) == \E x \in rows : x.message_id = i /\ x.user_id = u

\* an insert that does not look at the unique key (message_id, user_id)
InsertAlways(rows, msgs, row) == rows \cup {row}

\* INSERT IGNORE INTO chat_group_message_reads (message_id, user_id): a row
\* that breaks UNIQUE KEY unique_message_user or the foreign key to
\* chat_group_messages is skipped with a warning
InsertIgnore(rows, msgs, row) ==
  IF HasRead(rows, row.message_id, row.user_id)
     \/ ~(\E m \in msgs : m.id = row.message_id)
  THEN rows
  ELSE rows \cup {row}

\* SELECT * FROM friends WHERE (user_id = ? AND friend_id = ?)
\*                          OR (user_id = ? AND friend_id = ?)
AreFriends(a, b) == <<a, b>> \in friends \/ <<b, a>> \in friends

FriendRequest(s, r, st) == [sender_id |-> s, receiver_id |-> r, status |-> st]

\* SELECT * FROM friend_requests WHERE (sender_id = ? AND receiver_id = ?)
\*                                  OR (sender_id = ? AND receiver_id = ?)
RequestsBetween(a, b) ==
  {x \in friend_requests : \/ x.sender_id = a /\ x.receiver_id = b
                           \/ x.sender_id = b /\ x.receiver_id = a}

\* UPDATE friend_requests SET status = ? WHERE id = ?  (the row from s to r)
SetRequestStatus(rows, s, r, st) ==
  {IF x.sender_id = s /\ x.receiver_id = r THEN FriendRequest(s, r, st) ELSE x :
     x \in rows}

\* an insert of the caller's row only
OneWayRow(a, b) == {<<a, b>>}

\* the rows of INSERT INTO friends (user_id, friend_id) VALUES (?, ?), (?, ?)
\* with [a, b, b, a]
FriendshipRows(a, b) == {<<a, b>>, <<b, a>>}

\* a delete that removes the caller's row and leaves the friend's row
DeleteOneDirection(rows, a, b) == rows \ {<<a, b>>}

\* DELETE FROM friends WHERE (user_id = ? AND friend_id = ?)
\*                        OR (user_id = ? AND friend_id = ?)
DeleteFriendship(rows, a, b) == rows \ {<<a, b>>, <<b, a>>}

\* a duplicate check that finds nothing
NoRecentDuplicates(rows, s, r, b, t) == {}

\* SELECT * FROM chat_messages WHERE sender_id = ? AND receiver_id = ?
\*   AND message = ? AND created_at > DATE_SUB(NOW(), INTERVAL 10 SECOND)
RecentDuplicates(rows, s, r, b, t) ==
  {m \in rows : /\ m.sender_id = s /\ m.receiver_id = r /\ m.message = b
                /\ m.created_at > t - DedupWindow}

\* SELECT * FROM chat_group_messages WHERE group_id = ? AND sender_id = ?
\*   AND message = ? AND created_at > DATE_SUB(NOW(), INTERVAL 10 SECOND)
RecentGroupDuplicates(rows, g, s, b, t) ==
  {m \in rows : /\ m.group_id = g /\ m.sender_id = s /\ m.message = b
                /\ m.created_at > t - DedupWindow}

\* SELECT COUNT(*) FROM chat_messages WHERE receiver_id = ? AND is_read = 0
UnreadCount(u) == Cardinality({m \in chat_messages : m.receiver_id = u /\ ~m.is_read})

\* ---- request slots of the messaging handlers
IdleS ==
  [op |-> "idle", pc |-> "idle", userId |-> 0, peerId |-> 0, groupId |-> 0,
   message |-> EmptyBody, insertId |-> 0, isDuplicate |-> FALSE,
   memberIds |-> {}, pending |-> {}, current |-> <<>>, attempts |-> <<>>,
   messages |-> {}, messageId |-> 0,
   sent |-> 0, notified |-> "none", unread |-> {}, count |-> 0, errors |-> 0,
   action |-> "none", status |-> 0]

\* what is left once res.status(code).json(..) was called: the operation, the
\* id of the row in `data`, the isDuplicate flag, what the dispatcher
\* returned and the token rows it handed to the push gateway, the response
\* code
RespondS(q, code) ==
  [IdleS EXCEPT !.op = q.op, !.pc = "done", !.insertId = q.insertId,
                !.isDuplicate = q.isDuplicate, !.notified = q.notified,
                !.attempts = q.attempts, !.count = q.count, !.errors = q.errors,
                !.status = code]

\* sendMessage ends with res.status(201), sendGroupMessage with res.status(200)
SuccessCode(q) == IF q.op = "sendMessage" THEN 201 ELSE 200

\* the awaited dispatcher call returned `result`: the handler answers
AfterDispatch(q, result) == RespondS([q EXCEPT !.notified = result], SuccessCode(q))

\* a dispatcher that lets the exception reach the handler's catch
DispatcherRethrow(q) == RespondS(q, 500)

\* catch (error) { ...; return null; } around every dispatcher operation
DispatcherCatch(q) == AfterDispatch(q, "null")

\* firebase.sendFCMMessage: the response of admin.messaging().send, or null
\* when send rejects (the catch logs and returns null)
SendFCMMessage(outcome) == IF outcome = "delivered" THEN "sent" ELSE "null"

\* token.trim() !== '' and token truthy
ValidToken(t) == t \in Tokens

\* a delivery primitive that deletes the rows of a token the gateway refused
PruneStaleToken(rows, sentTo, outcome) ==
  IF outcome = "rejected" THEN rows \ sentTo ELSE rows

\* user_fcm_tokens after firebase.sendFCMMessage returned: the catch logs
\* 'Invalid FCM token provided' or 'FCM token is no longer valid' and returns
\* null; no statement on user_fcm_tokens is issued
RegistryAfterSend(rows, sentTo, outcome) == rows

\* rows written so far plus sends that may still write one
RowsCommitted ==
  (nextMsgId - 1) + (nextGroupMsgId - 1)
    + Cardinality({r \in Req : sreq[r].pc \in {"sm_friend", "sm_dup", "sm_insert",
                                               "sg_member", "sg_dup", "sg_insert"}})

\* a state after the sample data of the reset script and some use: group 1
\* with user 1 as admin and user 2 as member; neighbours in the user list
\* have accepted each other's friend request; user 1 has registered a device
\* token, user 2 a blank one, the others none
SeedFriends == {p \in Users \X Users : p[1] - p[2] = 1 \/ p[2] - p[1] = 1}
\* the requests the seeded friendships came from, accepted
SeedRequests == {FriendRequest(p[1], p[2], "accepted") : p \in {x \in SeedFriends : x[1] < x[2]}}
SeedTokens == {TokenRow(1, 1), TokenRow(2, BlankToken)}
SeedMembers == {Row(1, 1, TRUE), Row(1, 2, FALSE)}

\* ---- broadcasts: sendNewEventNotification, sendNewVenueNotification
\* `const maxTokens = 50`
MaxTokens == 50
\* `const testLimit = Math.min(tokens.length, 10)`
TestLimit == 10
\* chunks of 500 tokens for sendMulticast
ChunkSize == 500
\* rows with a non-blank token that the registry holds at most
MaxRegistered == 52

Min(a, b) == IF a < b THEN a ELSE b

\* validTokens: number of non-blank tokens, in the order the SELECT returned
\* them; limitedTokens = validTokens.slice(0, maxTokens); attempted: the
\* tokens 1..attempted of that order were handed to the push gateway
IdleB ==
  [op |-> "idle", pc |-> "idle", validTokens |-> 0, limitedTokens |-> 0,
   successCount |-> 0, failureCount |-> 0, attempted |-> 0, result |-> "none"]

InitChat ==
  /\ bcast = IdleB
  /\ friends = SeedFriends
  /\ friend_requests = SeedRequests
  /\ chat_messages = {}
  /\ chat_group_messages = {}
  /\ chat_group_message_reads = {}
  /\ nextMsgId = 1
  /\ nextGroupMsgId = 1
  /\ now = 0
  /\ sreq = [r \in Req |-> IdleS]

\* the states one group and the registry can be in: user 1 created the
\* group, any of the other users are its members; every user has no token
\* row (EmptyToken stands for that), a blank token or the token of the
\* user's device (users share a device when there are more users than tokens)
DeviceOf(u) == ((u - 1) % NumTokens) + 1
FanoutMembers ==
  {{Row(1, 1, TRUE)} \cup {Row(1, u, FALSE) : u \in S} : S \in SUBSET (Users \ {1})}
FanoutTokens ==
  {{TokenRow(u, f[u]) : u \in {v \in Users : f[v] # EmptyToken}} :
     f \in {h \in [Users -> Tokens \cup {BlankToken, EmptyToken}] :
             \A u \in Users : h[u] \in {DeviceOf(u), BlankToken, EmptyToken}}}

InitFanout ==
  /\ chat_groups = {1}
  /\ chat_group_members \in FanoutMembers
  /\ nextGroupId = 2
  /\ greq = [r \in Req |-> IdleG]
  /\ user_fcm_tokens \in FanoutTokens
  /\ treq = [r \in Req |-> IdleT]
  /\ InitChat

InitMessaging ==
  /\ chat_groups = {1}
  /\ chat_group_members = SeedMembers
  /\ nextGroupId = 2
  /\ greq = [r \in Req |-> IdleG]
  /\ user_fcm_tokens = SeedTokens
  /\ treq = [r \in Req |-> IdleT]
  /\ InitChat

\* the states group 1 can be in after its members have sent up to MaxMsgs
\* messages: every message has the read row of its sender
HistoryOf(f) ==
  {GroupMessage(i, 1, f[i], "hello", 0) : i \in DOMAIN f}
Histories ==
  UNION {[1..n -> {m.user_id : m \in SeedMembers}] : n \in 0..MaxMsgs}

InitHistory ==
  /\ chat_groups = {1}
  /\ chat_group_members = SeedMembers
  /\ nextGroupId = 2
  /\ greq = [r \in Req |-> IdleG]
  /\ user_fcm_tokens = SeedTokens
  /\ treq = [r \in Req |-> IdleT]
  /\ bcast = IdleB
  /\ friends = SeedFriends
  /\ friend_requests = SeedRequests
  /\ chat_messages = {}
  /\ \E f \in Histories :
       /\ chat_group_messages = HistoryOf(f)
       /\ chat_group_message_reads = {ReadRow(i, f[i], 0) : i \in DOMAIN f}
       /\ nextGroupMsgId = Len(f) + 1
  /\ nextMsgId = 1
  /\ now = 0
  /\ sreq = [r \in Req |-> IdleS]

\* -------------------------------------------------------------- deleteGroup
\* a group outside the ones createGroup numbers, with an admin, a member, a
\* message and a read row of its own
ArchiveGroup == MaxGroups + 1
ArchiveMessage == MaxMsgs + 1

DeleteGroupStart(r) ==
  /\ greq[r].pc \in {"idle", "done"}
  /\ sreq[r].pc \in {"idle", "done"}
  /\ \E u \in Users, g \in GroupIds \cup {ArchiveGroup} :
       greq' = [greq EXCEPT ![r] =
                  [IdleG EXCEPT !.op = "deleteGroup", !.pc = "dg_admin",
                                !.userId = u, !.groupId = g]]
  /\ UNCHANGED <<chat_groups, chat_group_members, nextGroupId, tokenVars, chatVars>>

\* SELECT ... WHERE group_id = ? AND user_id = ? AND is_admin = 1
DeleteGroupCheckAdmin(r) ==
  /\ greq[r].pc = "dg_admin"
  /\ LET q == greq[r] IN
       greq' = [greq EXCEPT ![r] =
                  IF IsAdmin(q.groupId, q.userId)
                  THEN [q EXCEPT !.pc = "dg_delete"]
                  ELSE Respond(q, 403)]
  /\ UNCHANGED <<chat_groups, chat_group_members, nextGroupId, tokenVars, chatVars>>

\* read rows that stay when the messages `gone` are deleted: none is removed
ReadsKept(reads, gone) == reads

\* chat_group_message_reads: FOREIGN KEY (message_id) REFERENCES
\* chat_group_messages(id) ON DELETE CASCADE
ReadsAfterDelete(reads, gone) == {x \in reads : x.message_id \notin gone}

\* DELETE FROM chat_groups WHERE id = ?; chat_group_members and
\* chat_group_messages reference chat_groups(id) ON DELETE CASCADE
DeleteGroupDelete(r) ==
  /\ greq[r].pc = "dg_delete"
  /\ LET q == greq[r] IN
       /\ chat_groups' = chat_groups \ {q.groupId}
       /\ chat_group_members' = {m \in chat_group_members : m.group_id # q.groupId}
       /\ chat_group_messages' = {m \in chat_group_messages : m.group_id # q.groupId}
       /\ chat_group_message_reads' =
            ReadsAfterDelete(chat_group_message_reads, GroupMessageIds(q.groupId))
       /\ greq' = [greq EXCEPT ![r] = Respond(q, 200)]
  /\ UNCHANGED <<nextGroupId, tokenVars, friend_requests, friends, chat_messages, nextMsgId,
                 nextGroupMsgId, now, sreq, bcast>>

DeleteGroupStep(r) ==
  \/ DeleteGroupStart(r)
  \/ DeleteGroupCheckAdmin(r)
  \/ DeleteGroupDelete(r)
  \/ DbError(r)

\* group 1 in any of its memberships and histories, next to the archive group
InitDelete ==
  /\ chat_groups = {1, ArchiveGroup}
  /\ \E rows \in FanoutMembers :
       chat_group_members =
         rows \cup {Row(ArchiveGroup, 2, TRUE), Row(ArchiveGroup, 1, FALSE)}
  /\ nextGroupId = ArchiveGroup + 1
  /\ greq = [r \in Req |-> IdleG]
  /\ user_fcm_tokens = SeedTokens
  /\ treq = [r \in Req |-> IdleT]
  /\ bcast = IdleB
  /\ friends = SeedFriends
  /\ friend_requests = SeedRequests
  /\ chat_messages = {}
  /\ \E f \in Histories :
       /\ chat_group_messages =
            HistoryOf(f) \cup {GroupMessage(ArchiveMessage, ArchiveGroup, 2, "bye", 0)}
       /\ chat_group_message_reads =
            {ReadRow(i, f[i], 0) : i \in DOMAIN f}
              \cup {ReadRow(ArchiveMessage, 2, 0), ReadRow(ArchiveMessage, 1, 0)}
  /\ nextGroupMsgId = ArchiveMessage + 1
  /\ nextMsgId = 1
  /\ now = 0
  /\ sreq = [r \in Req |-> IdleS]

\* ------------------------------------------------------------ sendMessage
\* `!message || message.trim() === ''` answers 400 before any storage access
SendMessageStart(r) ==
  /\ sreq[r].pc \in {"idle", "done"}
  /\ RowsCommitted < MaxMsgs
  /\ \E s \in Users, f \in Users, b \in Bodies \cup {EmptyBody} :
       sreq' = [sreq EXCEPT ![r] =
                  IF b = EmptyBody
                  THEN RespondS([IdleS EXCEPT !.op = "sendMessage"], 400)
                  ELSE [IdleS EXCEPT !.op = "sendMessage", !.pc = "sm_friend",
                                     !.userId = s, !.peerId = f, !.message = b]]
  /\ UNCHANGED <<friend_requests, friends, chat_messages, chat_group_messages, chat_group_message_reads,
                 nextMsgId, nextGroupMsgId, now, groupVars, tokenVars, bcast>>

SendMessageCheckFriend(r) ==
  /\ sreq[r].pc = "sm_friend"
  /\ LET q == sreq[r] IN
       sreq' = [sreq EXCEPT ![r] =
                  IF AreFriends(q.userId, q.peerId)
                  THEN [q EXCEPT !.pc = "sm_dup"]
                  ELSE RespondS(q, 403)]
  /\ UNCHANGED <<friend_requests, friends, chat_messages, chat_group_messages, chat_group_message_reads,
                 nextMsgId, nextGroupMsgId, now, groupVars, tokenVars, bcast>>

\* recentDuplicates.length > 0: 200 with data = recentDuplicates[0]
SendMessageCheckDuplicate(r) ==
  /\ sreq[r].pc = "sm_dup"
  /\ LET q == sreq[r]
         dups == RecentDuplicates(chat_messages, q.userId, q.peerId, q.message, now)
     IN IF dups = {}
        THEN sreq' = [sreq EXCEPT ![r] = [q EXCEPT !.pc = "sm_insert"]]
        ELSE \E d \in dups :
               sreq' = [sreq EXCEPT ![r] =
                          RespondS([q EXCEPT !.insertId = d.id, !.isDuplicate = TRUE], 200)]
  /\ UNCHANGED <<friend_requests, friends, chat_messages, chat_group_messages, chat_group_message_reads,
                 nextMsgId, nextGroupMsgId, now, groupVars, tokenVars, bcast>>

\* INSERT INTO chat_messages (sender_id, receiver_id, message): is_read and
\* created_at take their defaults 0 and CURRENT_TIMESTAMP
SendMessageInsert(r) ==
  /\ sreq[r].pc = "sm_insert"
  /\ LET q == sreq[r] IN
       /\ chat_messages' = chat_messages
            \cup {Message(nextMsgId, q.userId, q.peerId, q.message, now)}
       /\ sreq' = [sreq EXCEPT ![r] = [q EXCEPT !.pc = "sm_select", !.insertId = nextMsgId]]
  /\ nextMsgId' = nextMsgId + 1
  /\ UNCHANGED <<friend_requests, friends, chat_group_messages, chat_group_message_reads,
                 nextGroupMsgId, now, groupVars, tokenVars, bcast>>

\* SELECT * FROM chat_messages WHERE id = ?, then the dispatcher is awaited
SendMessageSelect(r) ==
  /\ sreq[r].pc = "sm_select"
  /\ sreq' = [sreq EXCEPT ![r] = [@ EXCEPT !.pc = "nc_sender"]]
  /\ UNCHANGED <<friend_requests, friends, chat_messages, chat_group_messages, chat_group_message_reads,
                 nextMsgId, nextGroupMsgId, now, groupVars, tokenVars, bcast>>

\* -------------------------------------- sendChatMessageNotification
\* SELECT ... FROM users WHERE id = ?: no row -> return null
NotifyChatSender(r) ==
  /\ sreq[r].pc = "nc_sender"
  /\ LET q == sreq[r] IN
       sreq' = [sreq EXCEPT ![r] =
                  IF q.userId \in Users
                  THEN [q EXCEPT !.pc = "nc_token"]
                  ELSE AfterDispatch(q, "null")]
  /\ UNCHANGED <<friend_requests, friends, chat_messages, chat_group_messages, chat_group_message_reads,
                 nextMsgId, nextGroupMsgId, now, groupVars, tokenVars, bcast>>

\* SELECT fcm_token FROM user_fcm_tokens WHERE user_id = ?: no row, or a
\* blank tokenResult[0].fcm_token -> return null
NotifyChatToken(r) ==
  /\ sreq[r].pc = "nc_token"
  /\ LET q == sreq[r]
         found == TokensOf(q.peerId)
     IN IF found = {}
        THEN sreq' = [sreq EXCEPT ![r] = AfterDispatch(q, "null")]
        ELSE \E t \in found :
               sreq' = [sreq EXCEPT ![r] =
                          IF ValidToken(t)
                          THEN [q EXCEPT !.pc = "nc_msgid",
                                         !.pending = {TokenRow(q.peerId, t)}]
                          ELSE AfterDispatch(q, "null")]
  /\ UNCHANGED <<friend_requests, friends, chat_messages, chat_group_messages, chat_group_message_reads,
                 nextMsgId, nextGroupMsgId, now, groupVars, tokenVars, bcast>>

\* SELECT id FROM chat_messages ... ORDER BY created_at DESC LIMIT 1
\* messageResult.length > 0 ? messageResult[0].id : Date.now().toString()
ClockId == 0
FirstOrClock(ids) == IF ids = {} THEN {ClockId} ELSE ids

\* SELECT id FROM chat_messages WHERE sender_id = ? AND receiver_id = ?
\* ORDER BY created_at DESC LIMIT 1: a row of the pair with the greatest
\* created_at; rows of the same second are in no defined order
LatestDirect(s, t) ==
  LET rows == {m \in chat_messages : m.sender_id = s /\ m.receiver_id = t}
  IN {m.id : m \in {x \in rows : \A y \in rows : y.created_at <= x.created_at}}

\* SELECT id FROM chat_group_messages WHERE sender_id = ? AND group_id = ?
\* ORDER BY created_at DESC LIMIT 1
LatestGroup(s, g) ==
  LET rows == {m \in chat_group_messages : m.sender_id = s /\ m.group_id = g}
  IN {m.id : m \in {x \in rows : \A y \in rows : y.created_at <= x.created_at}}

NotifyChatMessageId(r) ==
  /\ sreq[r].pc = "nc_msgid"
  /\ \E i \in FirstOrClock(LatestDirect(sreq[r].userId, sreq[r].peerId)) :
       sreq' = [sreq EXCEPT ![r] = [@ EXCEPT !.pc = "nc_deliver", !.messageId = i]]
  /\ UNCHANGED <<friend_requests, friends, chat_messages, chat_group_messages, chat_group_message_reads,
                 nextMsgId, nextGroupMsgId, now, groupVars, tokenVars, bcast>>

\* return await firebase.sendFCMMessage(token, notification, data): the push
\* gateway answers or rejects; until it does the handler stays here
NotifyChatDeliver(r) ==
  /\ sreq[r].pc = "nc_deliver"
  /\ \E outcome \in {"delivered", "rejected"} :
       /\ sreq' = [sreq EXCEPT ![r] = AfterDispatch(sreq[r], SendFCMMessage(outcome))]
       /\ user_fcm_tokens' =
            RegistryAfterSend(user_fcm_tokens, sreq[r].pending, outcome)
  /\ UNCHANGED <<friend_requests, friends, chat_messages, chat_group_messages, chat_group_message_reads,
                 nextMsgId, nextGroupMsgId, now, groupVars, treq, bcast>>

\* -------------------------------------------------------- sendGroupMessage
SendGroupMessageTo(r, groups) ==
  /\ sreq[r].pc \in {"idle", "done"}
  /\ greq[r].pc \in {"idle", "done"}
  /\ RowsCommitted < MaxMsgs
  /\ \E s \in Users, g \in groups, b \in Bodies \cup {EmptyBody} :
       sreq' = [sreq EXCEPT ![r] =
                  IF b = EmptyBody
                  THEN RespondS([IdleS EXCEPT !.op = "sendGroupMessage"], 400)
                  ELSE [IdleS EXCEPT !.op = "sendGroupMessage", !.pc = "sg_member",
                                     !.userId = s, !.groupId = g, !.message = b]]
  /\ UNCHANGED <<friend_requests, friends, chat_messages, chat_group_messages, chat_group_message_reads,
                 nextMsgId, nextGroupMsgId, now, groupVars, tokenVars, bcast>>

SendGroupMessageStart(r) == SendGroupMessageTo(r, GroupIds)

SendGroupMessageCheckMember(r) ==
  /\ sreq[r].pc = "sg_member"
  /\ LET q == sreq[r] IN
       sreq' = [sreq EXCEPT ![r] =
                  IF IsMember(q.groupId, q.userId)
                  THEN [q EXCEPT !.pc = "sg_dup"]
                  ELSE RespondS(q, 403)]
  /\ UNCHANGED <<friend_requests, friends, chat_messages, chat_group_messages, chat_group_message_reads,
                 nextMsgId, nextGroupMsgId, now, groupVars, tokenVars, bcast>>

SendGroupMessageCheckDuplicate(r) ==
  /\ sreq[r].pc = "sg_dup"
  /\ LET q == sreq[r]
         dups == RecentGroupDuplicates(chat_group_messages, q.groupId, q.userId,
                                       q.message, now)
     IN IF dups = {}
        THEN sreq' = [sreq EXCEPT ![r] = [q EXCEPT !.pc = "sg_insert"]]
        ELSE \E d \in dups :
               sreq' = [sreq EXCEPT ![r] =
                          RespondS([q EXCEPT !.insertId = d.id, !.isDuplicate = TRUE], 200)]
  /\ UNCHANGED <<friend_requests, friends, chat_messages, chat_group_messages, chat_group_message_reads,
                 nextMsgId, nextGroupMsgId, now, groupVars, tokenVars, bcast>>

\* INSERT INTO chat_group_messages (group_id, sender_id, message); the
\* foreign key to chat_groups refuses a row for a deleted group
SendGroupMessageInsert(r) ==
  /\ sreq[r].pc = "sg_insert"
  /\ LET q == sreq[r] IN
       IF q.groupId \notin chat_groups
       THEN /\ sreq' = [sreq EXCEPT ![r] = RespondS(q, 500)]
            /\ UNCHANGED <<chat_group_messages, nextGroupMsgId>>
       ELSE /\ chat_group_messages' = chat_group_messages
                 \cup {GroupMessage(nextGroupMsgId, q.groupId, q.userId, q.message, now)}
            /\ sreq' = [sreq EXCEPT ![r] =
                          [q EXCEPT !.pc = "sg_select", !.insertId = nextGroupMsgId]]
            /\ nextGroupMsgId' = nextGroupMsgId + 1
  /\ UNCHANGED <<friend_requests, friends, chat_messages, chat_group_message_reads,
                 nextMsgId, now, groupVars, tokenVars, bcast>>

\* SELECT m.*, u.* ... WHERE m.id = ?
SendGroupMessageSelect(r) ==
  /\ sreq[r].pc = "sg_select"
  /\ sreq' = [sreq EXCEPT ![r] = [@ EXCEPT !.pc = "sg_read"]]
  /\ UNCHANGED <<friend_requests, friends, chat_messages, chat_group_messages, chat_group_message_reads,
                 nextMsgId, nextGroupMsgId, now, groupVars, tokenVars, bcast>>

\* INSERT INTO chat_group_message_reads (message_id, user_id): read by
\* sender.  A plain INSERT: it throws on the unique key (message_id, user_id)
\* and on the foreign key to chat_group_messages, and the catch answers 500
SendGroupMessageMarkRead(r) ==
  /\ sreq[r].pc = "sg_read"
  /\ LET q == sreq[r] IN
       IF HasRead(chat_group_message_reads, q.insertId, q.userId)
          \/ ~(\E m \in chat_group_messages : m.id = q.insertId)
       THEN /\ sreq' = [sreq EXCEPT ![r] = RespondS(q, 500)]
            /\ UNCHANGED chat_group_message_reads
       ELSE /\ chat_group_message_reads' =
                 chat_group_message_reads \cup {ReadRow(q.insertId, q.userId, now)}
            /\ sreq' = [sreq EXCEPT ![r] = [q EXCEPT !.pc = "ng_sender"]]
  /\ UNCHANGED <<friend_requests, friends, chat_messages, chat_group_messages,
                 nextMsgId, nextGroupMsgId, now, groupVars, tokenVars, bcast>>

\* -------------------------------------------------------- getGroupMessages
GetGroupMessagesOf(r, groups) ==
  /\ sreq[r].pc \in {"idle", "done"}
  /\ greq[r].pc \in {"idle", "done"}
  /\ \E u \in Users, g \in groups :
       sreq' = [sreq EXCEPT ![r] =
                  [IdleS EXCEPT !.op = "getGroupMessages", !.pc = "gm_member",
                                !.userId = u, !.groupId = g]]
  /\ UNCHANGED <<friend_requests, friends, chat_messages, chat_group_messages, chat_group_message_reads,
                 nextMsgId, nextGroupMsgId, now, groupVars, tokenVars, bcast>>

GetGroupMessagesStart(r) == GetGroupMessagesOf(r, GroupIds)

GetGroupMessagesCheckMember(r) ==
  /\ sreq[r].pc = "gm_member"
  /\ LET q == sreq[r] IN
       sreq' = [sreq EXCEPT ![r] =
                  IF IsMember(q.groupId, q.userId)
                  THEN [q EXCEPT !.pc = "gm_select"]
                  ELSE RespondS(q, 403)]
  /\ UNCHANGED <<friend_requests, friends, chat_messages, chat_group_messages, chat_group_message_reads,
                 nextMsgId, nextGroupMsgId, now, groupVars, tokenVars, bcast>>

\* SELECT m.* ... WHERE m.group_id = ? ORDER BY m.created_at ASC; messageIds
\* empty -> 200 at once
GetGroupMessagesSelect(r) ==
  /\ sreq[r].pc = "gm_select"
  /\ LET q == sreq[r]
         messageIds == GroupMessageIds(q.groupId)
     IN sreq' = [sreq EXCEPT ![r] =
                   IF messageIds = {}
                   THEN RespondS(q, 200)
                   ELSE [q EXCEPT !.pc = "gm_mark", !.unread = messageIds]]
  /\ UNCHANGED <<friend_requests, friends, chat_messages, chat_group_messages, chat_group_message_reads,
                 nextMsgId, nextGroupMsgId, now, groupVars, tokenVars, bcast>>

\* after one pass of a marking loop: the next id, or res.status(200)
AfterMark(q) == IF q.unread = {} THEN RespondS(q, 200) ELSE q

\* for (const messageId of messageIds) { try { await INSERT IGNORE ... }
\* catch { console.error } }: ids go up with created_at; a rejected statement
\* is logged and the loop goes on
GetGroupMessagesMark(r) ==
  /\ sreq[r].pc = "gm_mark"
  /\ LET q == sreq[r]
         messageId == CHOOSE i \in q.unread : \A j \in q.unread : i <= j
     IN \E rejected \in BOOLEAN :
          IF rejected
          THEN /\ sreq' = [sreq EXCEPT ![r] =
                             AfterMark([q EXCEPT !.unread = @ \ {messageId},
                                                 !.errors = 1])]
               /\ UNCHANGED chat_group_message_reads
          ELSE /\ chat_group_message_reads' =
                    InsertIgnore(chat_group_message_reads, chat_group_messages,
                                 ReadRow(messageId, q.userId, now))
               /\ sreq' = [sreq EXCEPT ![r] =
                             AfterMark([q EXCEPT !.unread = @ \ {messageId}])]
  /\ UNCHANGED <<friend_requests, friends, chat_messages, chat_group_messages,
                 nextMsgId, nextGroupMsgId, now, groupVars, tokenVars, bcast>>

\* ------------------------------------------------ markGroupMessagesAsRead
MarkGroupReadStart(r) ==
  /\ sreq[r].pc \in {"idle", "done"}
  /\ \E u \in Users, g \in GroupIds :
       sreq' = [sreq EXCEPT ![r] =
                  [IdleS EXCEPT !.op = "markGroupMessagesAsRead", !.pc = "mg_member",
                                !.userId = u, !.groupId = g]]
  /\ UNCHANGED <<friend_requests, friends, chat_messages, chat_group_messages, chat_group_message_reads,
                 nextMsgId, nextGroupMsgId, now, groupVars, tokenVars, bcast>>

MarkGroupReadCheckMember(r) ==
  /\ sreq[r].pc = "mg_member"
  /\ LET q == sreq[r] IN
       sreq' = [sreq EXCEPT ![r] =
                  IF IsMember(q.groupId, q.userId)
                  THEN [q EXCEPT !.pc = "mg_select"]
                  ELSE RespondS(q, 403)]
  /\ UNCHANGED <<friend_requests, friends, chat_messages, chat_group_messages, chat_group_message_reads,
                 nextMsgId, nextGroupMsgId, now, groupVars, tokenVars, bcast>>

\* SELECT m.id FROM chat_group_messages m LEFT JOIN chat_group_message_reads r
\* ON m.id = r.message_id AND r.user_id = ? WHERE m.group_id = ? AND r.id IS NULL
UnreadGroupMessages(g, u) ==
  {i \in GroupMessageIds(g) : ~HasRead(chat_group_message_reads, i, u)}

MarkGroupReadSelect(r) ==
  /\ sreq[r].pc = "mg_select"
  /\ LET q == sreq[r]
         unreadMessages == UnreadGroupMessages(q.groupId, q.userId)
     IN sreq' = [sreq EXCEPT ![r] =
                   IF unreadMessages = {}
                   THEN RespondS(q, 200)
                   ELSE [q EXCEPT !.pc = "mg_mark", !.unread = unreadMessages]]
  /\ UNCHANGED <<friend_requests, friends, chat_messages, chat_group_messages, chat_group_message_reads,
                 nextMsgId, nextGroupMsgId, now, groupVars, tokenVars, bcast>>

\* for (const message of unreadMessages) { try { await INSERT IGNORE ...;
\* markedCount++ } catch { console.error } }: the SELECT has no ORDER BY
MarkGroupReadMark(r) ==
  /\ sreq[r].pc = "mg_mark"
  /\ LET q == sreq[r] IN
       \E messageId \in q.unread, rejected \in BOOLEAN :
          IF rejected
          THEN /\ sreq' = [sreq EXCEPT ![r] =
                             AfterMark([q EXCEPT !.unread = @ \ {messageId},
                                                 !.errors = 1])]
               /\ UNCHANGED chat_group_message_reads
          ELSE /\ chat_group_message_reads' =
                    InsertIgnore(chat_group_message_reads, chat_group_messages,
                                 ReadRow(messageId, q.userId, now))
               /\ sreq' = [sreq EXCEPT ![r] =
                             AfterMark([q EXCEPT !.unread = @ \ {messageId},
                                                 !.count = @ + 1])]
  /\ UNCHANGED <<friend_requests, friends, chat_messages, chat_group_messages,
                 nextMsgId, nextGroupMsgId, now, groupVars, tokenVars, bcast>>

\* ------------------------------------- sendGroupMessageNotification
NotifyGroupSender(r) ==
  /\ sreq[r].pc = "ng_sender"
  /\ LET q == sreq[r] IN
       sreq' = [sreq EXCEPT ![r] =
                  IF q.userId \in Users
                  THEN [q EXCEPT !.pc = "ng_group"]
                  ELSE AfterDispatch(q, "null")]
  /\ UNCHANGED <<friend_requests, friends, chat_messages, chat_group_messages, chat_group_message_reads,
                 nextMsgId, nextGroupMsgId, now, groupVars, tokenVars, bcast>>

\* SELECT id, name, avatar FROM chat_groups WHERE id = ?
NotifyGroupGroup(r) ==
  /\ sreq[r].pc = "ng_group"
  /\ LET q == sreq[r] IN
       sreq' = [sreq EXCEPT ![r] =
                  IF q.groupId \in chat_groups
                  THEN [q EXCEPT !.pc = "ng_members"]
                  ELSE AfterDispatch(q, "null")]
  /\ UNCHANGED <<friend_requests, friends, chat_messages, chat_group_messages, chat_group_message_reads,
                 nextMsgId, nextGroupMsgId, now, groupVars, tokenVars, bcast>>

\* SELECT user_id FROM chat_group_members WHERE group_id = ? AND user_id != ?
NotifyGroupMembers(r) ==
  /\ sreq[r].pc = "ng_members"
  /\ LET q == sreq[r]
         others == MemberIds(q.groupId) \ {q.userId}
     IN sreq' = [sreq EXCEPT ![r] =
                   IF others = {}
                   THEN AfterDispatch(q, "null")
                   ELSE [q EXCEPT !.pc = "ng_tokens", !.memberIds = others]]
  /\ UNCHANGED <<friend_requests, friends, chat_messages, chat_group_messages, chat_group_message_reads,
                 nextMsgId, nextGroupMsgId, now, groupVars, tokenVars, bcast>>

\* SELECT user_id, fcm_token FROM user_fcm_tokens WHERE user_id IN (memberIds)
NotifyGroupTokens(r) ==
  /\ sreq[r].pc = "ng_tokens"
  /\ LET q == sreq[r]
         found == {x \in user_fcm_tokens : x.user_id \in q.memberIds}
     IN sreq' = [sreq EXCEPT ![r] =
                   IF found = {}
                   THEN AfterDispatch(q, "null")
                   ELSE [q EXCEPT !.pc = "ng_msgid", !.pending = found]]
  /\ UNCHANGED <<friend_requests, friends, chat_messages, chat_group_messages, chat_group_message_reads,
                 nextMsgId, nextGroupMsgId, now, groupVars, tokenVars, bcast>>

\* SELECT id FROM chat_group_messages ... LIMIT 1, then validTokens is
\* filtered: no valid token -> return null
NotifyGroupMessageId(r) ==
  /\ sreq[r].pc = "ng_msgid"
  /\ LET q == sreq[r]
         validTokens == {x \in q.pending : ValidToken(x.fcm_token)}
     IN \E i \in FirstOrClock(LatestGroup(q.userId, q.groupId)) :
          sreq' = [sreq EXCEPT ![r] =
                     IF validTokens = {}
                     THEN AfterDispatch(q, "null")
                     ELSE [q EXCEPT !.pc = "ng_deliver", !.pending = validTokens,
                                    !.messageId = i]]
  /\ UNCHANGED <<friend_requests, friends, chat_messages, chat_group_messages, chat_group_message_reads,
                 nextMsgId, nextGroupMsgId, now, groupVars, tokenVars, bcast>>

\* for (const token of validTokens): the next token of the list is handed to
\* firebase.sendFCMMessage, which calls admin.messaging().send.  The list has
\* the order of the rows the SELECT returned, which has no ORDER BY.
NotifyGroupSend(r) ==
  /\ sreq[r].pc = "ng_deliver"
  /\ LET q == sreq[r] IN
       \E x \in q.pending :
         sreq' = [sreq EXCEPT ![r] =
                    [q EXCEPT !.pc = "ng_await", !.pending = q.pending \ {x},
                              !.current = <<x>>, !.attempts = Append(q.attempts, x)]]
  /\ UNCHANGED <<friend_requests, friends, chat_messages, chat_group_messages, chat_group_message_reads,
                 nextMsgId, nextGroupMsgId, now, groupVars, tokenVars, bcast>>

\* a loop that gives up at the first token that was not delivered
LoopStopsOnFailure(q, result) ==
  IF result = "null"
  THEN AfterDispatch(q, IF q.sent > 0 THEN "sent" ELSE "null")
  ELSE IF q.pending = {}
       THEN AfterDispatch([q EXCEPT !.sent = q.sent + 1], "sent")
       ELSE [q EXCEPT !.pc = "ng_deliver", !.current = <<>>, !.sent = q.sent + 1]

\* `if (result) { successCount++; results.push(result); }`, then the next
\* token; after the last one `return results.length > 0 ? results : null`
LoopAfter(q, result) ==
  LET n == IF result = "sent" THEN q.sent + 1 ELSE q.sent
  IN IF q.pending = {}
     THEN AfterDispatch([q EXCEPT !.sent = n], IF n > 0 THEN "sent" ELSE "null")
     ELSE [q EXCEPT !.pc = "ng_deliver", !.current = <<>>, !.sent = n]

\* the awaited sendFCMMessage returns the gateway's response or null
NotifyGroupDeliver(r) ==
  /\ sreq[r].pc = "ng_await"
  /\ \E outcome \in {"delivered", "rejected"} :
       /\ sreq' = [sreq EXCEPT ![r] = LoopAfter(sreq[r], SendFCMMessage(outcome))]
       /\ user_fcm_tokens' =
            RegistryAfterSend(user_fcm_tokens, Range(sreq[r].current), outcome)
  /\ UNCHANGED <<friend_requests, friends, chat_messages, chat_group_messages, chat_group_message_reads,
                 nextMsgId, nextGroupMsgId, now, groupVars, treq, bcast>>

\* ------------------------------------------------- getChatHistory, markAsRead
\* the parameters [friendId, userId] of the UPDATE: sender_id = friendId and
\* receiver_id = userId
ReadArgsSwapped(q) == <<q.userId, q.peerId>>

ReadArgs(q) == <<q.peerId, q.userId>>

\* an update without the sender_id condition
MarkReadAnySender(rows, from, to) ==
  {IF m.receiver_id = to THEN [m EXCEPT !.is_read = TRUE] ELSE m : m \in rows}

\* UPDATE chat_messages SET is_read = 1
\*  WHERE sender_id = ? AND receiver_id = ? AND is_read = 0
MarkRead(rows, from, to) ==
  {IF m.sender_id = from /\ m.receiver_id = to /\ ~m.is_read
   THEN [m EXCEPT !.is_read = TRUE] ELSE m : m \in rows}

GetChatHistoryStart(r) ==
  /\ sreq[r].pc \in {"idle", "done"}
  /\ \E u \in Users, f \in Users :
       sreq' = [sreq EXCEPT ![r] =
                  [IdleS EXCEPT !.op = "getChatHistory", !.pc = "gh_friend",
                                !.userId = u, !.peerId = f]]
  /\ UNCHANGED <<friend_requests, friends, chat_messages, chat_group_messages, chat_group_message_reads,
                 nextMsgId, nextGroupMsgId, now, groupVars, tokenVars, bcast>>

GetChatHistoryCheckFriend(r) ==
  /\ sreq[r].pc = "gh_friend"
  /\ LET q == sreq[r] IN
       sreq' = [sreq EXCEPT ![r] =
                  IF AreFriends(q.userId, q.peerId)
                  THEN [q EXCEPT !.pc = "gh_select"]
                  ELSE RespondS(q, 403)]
  /\ UNCHANGED <<friend_requests, friends, chat_messages, chat_group_messages, chat_group_message_reads,
                 nextMsgId, nextGroupMsgId, now, groupVars, tokenVars, bcast>>

\* rows of chat_messages exchanged by a and b, in either direction
Conversation(rows, a, b) ==
  {m \in rows : \/ (m.sender_id = a /\ m.receiver_id = b)
                \/ (m.sender_id = b /\ m.receiver_id = a)}

\* SELECT * FROM chat_messages WHERE (sender, receiver) is the pair, either way;
\* the rows read here are the ones the response carries
GetChatHistorySelect(r) ==
  /\ sreq[r].pc = "gh_select"
  /\ LET q == sreq[r] IN
       sreq' = [sreq EXCEPT ![r] =
                  [q EXCEPT !.pc = "gh_mark",
                            !.messages = {m.id : m \in Conversation(chat_messages, q.userId, q.peerId)}]]
  /\ UNCHANGED <<friend_requests, friends, chat_messages, chat_group_messages, chat_group_message_reads,
                 nextMsgId, nextGroupMsgId, now, groupVars, tokenVars, bcast>>

GetChatHistoryMark(r) ==
  /\ sreq[r].pc = "gh_mark"
  /\ LET q == sreq[r] IN
       /\ chat_messages' = MarkRead(chat_messages, ReadArgs(q)[1], ReadArgs(q)[2])
       /\ sreq' = [sreq EXCEPT ![r] = RespondS(q, 200)]
  /\ UNCHANGED <<friend_requests, friends, chat_group_messages, chat_group_message_reads,
                 nextMsgId, nextGroupMsgId, now, groupVars, tokenVars, bcast>>

\* markAsRead has no friendship check
MarkAsReadStart(r) ==
  /\ sreq[r].pc \in {"idle", "done"}
  /\ \E u \in Users, f \in Users :
       sreq' = [sreq EXCEPT ![r] =
                  [IdleS EXCEPT !.op = "markAsRead", !.pc = "mr_mark",
                                !.userId = u, !.peerId = f]]
  /\ UNCHANGED <<friend_requests, friends, chat_messages, chat_group_messages, chat_group_message_reads,
                 nextMsgId, nextGroupMsgId, now, groupVars, tokenVars, bcast>>

MarkAsReadUpdate(r) ==
  /\ sreq[r].pc = "mr_mark"
  /\ LET q == sreq[r] IN
       /\ chat_messages' = MarkRead(chat_messages, ReadArgs(q)[1], ReadArgs(q)[2])
       /\ sreq' = [sreq EXCEPT ![r] = RespondS(q, 200)]
  /\ UNCHANGED <<friend_requests, friends, chat_group_messages, chat_group_message_reads,
                 nextMsgId, nextGroupMsgId, now, groupVars, tokenVars, bcast>>

\* ----------------------------------------------------------- failures, time
HandlerQueries ==
  {"sm_friend", "sm_dup", "sm_insert", "sm_select",
   "sg_member", "sg_dup", "sg_insert", "sg_select", "sg_read",
   "gh_friend", "gh_select", "gh_mark", "mr_mark",
   "gm_member", "gm_select", "mg_member", "mg_select",
   "fr_users", "fr_friends", "fr_request", "fr_accept", "fr_befriend", "fr_insert",
   "rr_select", "rr_update", "rr_insert", "rf_check", "rf_delete", "rf_requests"}
DispatcherQueries ==
  {"nc_sender", "nc_token", "nc_msgid",
   "ng_sender", "ng_group", "ng_members", "ng_tokens", "ng_msgid"}

\* a db.execute of the handler rejects: its catch answers 500
ChatDbError(r) ==
  /\ sreq[r].pc \in HandlerQueries
  /\ sreq' = [sreq EXCEPT ![r] = RespondS(sreq[r], 500)]
  /\ UNCHANGED <<friend_requests, friends, chat_messages, chat_group_messages, chat_group_message_reads,
                 nextMsgId, nextGroupMsgId, now, groupVars, tokenVars, bcast>>

\* a db.execute of the dispatcher rejects: the dispatcher's catch returns null
NotifyDbError(r) ==
  /\ sreq[r].pc \in DispatcherQueries
  /\ sreq' = [sreq EXCEPT ![r] = DispatcherCatch(sreq[r])]
  /\ UNCHANGED <<friend_requests, friends, chat_messages, chat_group_messages, chat_group_message_reads,
                 nextMsgId, nextGroupMsgId, now, groupVars, tokenVars, bcast>>

\* the database clock advances
Tick ==
  /\ now + TickStep <= MaxClock
  /\ now' = now + TickStep
  /\ UNCHANGED <<friend_requests, friends, chat_messages, chat_group_messages, chat_group_message_reads,
                 nextMsgId, nextGroupMsgId, sreq, groupVars, tokenVars, bcast>>

\* ------------------- sendNewEventNotification, sendNewVenueNotification
\* the controller that created the event or venue calls the dispatcher
NewBroadcastStart ==
  /\ bcast.pc \in {"idle", "done"}
  /\ \E op \in {"sendNewEventNotification", "sendNewVenueNotification"} :
       bcast' = [IdleB EXCEPT !.op = op, !.pc = "nb_load"]
  /\ UNCHANGED <<friend_requests, friends, chat_messages, chat_group_messages, chat_group_message_reads,
                 nextMsgId, nextGroupMsgId, now, sreq, groupVars, tokenVars>>

\* SELECT the event or venue; no row, or a rejected statement -> return null
NewBroadcastLoad ==
  /\ bcast.pc = "nb_load"
  /\ \E found \in BOOLEAN :
       bcast' = IF found THEN [bcast EXCEPT !.pc = "nb_tokens"]
                ELSE [bcast EXCEPT !.pc = "done", !.result = "null"]
  /\ UNCHANGED <<friend_requests, friends, chat_messages, chat_group_messages, chat_group_message_reads,
                 nextMsgId, nextGroupMsgId, now, sreq, groupVars, tokenVars>>

\* SELECT user_id, fcm_token FROM user_fcm_tokens WHERE fcm_token IS NOT NULL
\* AND fcm_token != "", then the filter; nothing left, or a rejected
\* statement -> return null; else limitedTokens = validTokens.slice(0, maxTokens)
NewBroadcastTokens ==
  /\ bcast.pc = "nb_tokens"
  /\ \E n \in 0..MaxRegistered, failed \in BOOLEAN :
       bcast' = IF failed \/ n = 0
                THEN [bcast EXCEPT !.pc = "done", !.result = "null"]
                ELSE [bcast EXCEPT !.pc = "nb_single", !.validTokens = n,
                                   !.limitedTokens = Min(n, MaxTokens)]
  /\ UNCHANGED <<friend_requests, friends, chat_messages, chat_group_messages, chat_group_message_reads,
                 nextMsgId, nextGroupMsgId, now, sreq, groupVars, tokenVars>>

\* after the loop over the first testLimit tokens: the rest goes out by
\* multicast only `if (successCount > 0 && failureCount === 0 &&
\* tokens.length > testLimit)`, else `responses.length > 0 ? responses : null`
AfterSingles(b) ==
  IF b.successCount + b.failureCount < Min(b.limitedTokens, TestLimit)
  THEN b
  ELSE IF b.successCount > 0 /\ b.failureCount = 0 /\ b.limitedTokens > TestLimit
       THEN [b EXCEPT !.pc = "nb_multicast"]
       ELSE [b EXCEPT !.pc = "done",
                      !.result = IF b.successCount > 0 THEN "responses" ELSE "null"]

\* sendFCMMessageToMultipleDevices: for (let i = 0; i < testLimit; i++)
\* await admin.messaging().send(message), a rejection is caught and counted
NewBroadcastSingle ==
  /\ bcast.pc = "nb_single"
  /\ \E outcome \in {"delivered", "rejected"} :
       bcast' = AfterSingles(
                  [bcast EXCEPT !.attempted = @ + 1,
                                !.successCount = IF outcome = "delivered" THEN @ + 1 ELSE @,
                                !.failureCount = IF outcome = "rejected" THEN @ + 1 ELSE @])
  /\ UNCHANGED <<friend_requests, friends, chat_messages, chat_group_messages, chat_group_message_reads,
                 nextMsgId, nextGroupMsgId, now, sreq, groupVars, tokenVars>>

\* tokens.slice(testLimit) in chunks of 500: await sendMulticast(chunk); a
\* rejection leaves the loop over the chunks and is caught
NewBroadcastMulticast ==
  /\ bcast.pc = "nb_multicast"
  /\ LET chunk == Min(bcast.limitedTokens - bcast.attempted, ChunkSize) IN
       \E outcome \in {"answered", "rejected"} :
         bcast' = IF outcome = "rejected" \/ bcast.attempted + chunk = bcast.limitedTokens
                  THEN [bcast EXCEPT !.attempted = @ + chunk, !.pc = "done",
                                     !.result = "responses"]
                  ELSE [bcast EXCEPT !.attempted = @ + chunk]
  /\ UNCHANGED <<friend_requests, friends, chat_messages, chat_group_messages, chat_group_message_reads,
                 nextMsgId, nextGroupMsgId, now, sreq, groupVars, tokenVars>>

BroadcastStep ==
  \/ NewBroadcastStart
  \/ NewBroadcastLoad
  \/ NewBroadcastTokens
  \/ NewBroadcastSingle
  \/ NewBroadcastMulticast

\* the storage and dispatcher steps of a send, all but the push gateway's answer
SendProgress(r) ==
  \/ SendMessageCheckFriend(r)
  \/ SendMessageCheckDuplicate(r)
  \/ SendMessageInsert(r)
  \/ SendMessageSelect(r)
  \/ NotifyChatSender(r)
  \/ NotifyChatToken(r)
  \/ NotifyChatMessageId(r)
  \/ SendGroupMessageCheckMember(r)
  \/ SendGroupMessageCheckDuplicate(r)
  \/ SendGroupMessageInsert(r)
  \/ SendGroupMessageSelect(r)
  \/ SendGroupMessageMarkRead(r)
  \/ NotifyGroupSender(r)
  \/ NotifyGroupGroup(r)
  \/ NotifyGroupMembers(r)
  \/ NotifyGroupTokens(r)
  \/ NotifyGroupMessageId(r)
  \/ NotifyGroupSend(r)

SendStep(r) ==
  \/ SendMessageStart(r)
  \/ SendGroupMessageStart(r)
  \/ SendProgress(r)
  \/ NotifyChatDeliver(r)
  \/ NotifyGroupDeliver(r)
  \/ ChatDbError(r)
  \/ NotifyDbError(r)

GroupSendStep(r) ==
  \/ SendGroupMessageStart(r)
  \/ SendGroupMessageCheckMember(r)
  \/ SendGroupMessageCheckDuplicate(r)
  \/ SendGroupMessageInsert(r)
  \/ SendGroupMessageSelect(r)
  \/ SendGroupMessageMarkRead(r)
  \/ NotifyGroupSender(r)
  \/ NotifyGroupGroup(r)
  \/ NotifyGroupMembers(r)
  \/ NotifyGroupTokens(r)
  \/ NotifyGroupMessageId(r)
  \/ NotifyGroupSend(r)
  \/ NotifyGroupDeliver(r)
  \/ ChatDbError(r)
  \/ NotifyDbError(r)

\* the two users whose friend requests, answers and removals are followed
FriendCallers == {1, 2}

\* -------------------------------------------------------- sendFriendRequest
FriendRequestStart(r) ==
  /\ sreq[r].pc \in {"idle", "done"}
  /\ \E s \in FriendCallers, f \in FriendCallers \cup {NoUser} :
       sreq' = [sreq EXCEPT ![r] =
                  [IdleS EXCEPT !.op = "sendFriendRequest", !.pc = "fr_users",
                                !.userId = s, !.peerId = f]]
  /\ UNCHANGED <<friend_requests, friends, chat_messages, chat_group_messages,
                 chat_group_message_reads, nextMsgId, nextGroupMsgId, now,
                 groupVars, tokenVars, bcast>>

\* SELECT id FROM users for both ids: 404 for an unknown receiver; then
\* `senderId === parseInt(receiverId)`: 400
FriendRequestCheckUsers(r) ==
  /\ sreq[r].pc = "fr_users"
  /\ LET q == sreq[r] IN
       sreq' = [sreq EXCEPT ![r] =
                  IF q.peerId \notin Users THEN RespondS(q, 404)
                  ELSE IF q.userId = q.peerId THEN RespondS(q, 400)
                  ELSE [q EXCEPT !.pc = "fr_friends"]]
  /\ UNCHANGED <<friend_requests, friends, chat_messages, chat_group_messages,
                 chat_group_message_reads, nextMsgId, nextGroupMsgId, now,
                 groupVars, tokenVars, bcast>>

FriendRequestCheckFriends(r) ==
  /\ sreq[r].pc = "fr_friends"
  /\ LET q == sreq[r] IN
       sreq' = [sreq EXCEPT ![r] =
                  IF AreFriends(q.userId, q.peerId) THEN RespondS(q, 400)
                  ELSE [q EXCEPT !.pc = "fr_request"]]
  /\ UNCHANGED <<friend_requests, friends, chat_messages, chat_group_messages,
                 chat_group_message_reads, nextMsgId, nextGroupMsgId, now,
                 groupVars, tokenVars, bcast>>

\* existingRequest[0] of a SELECT without ORDER BY: a request of the receiver
\* to the sender, of any status, is accepted; one of the sender's own -> 400
FriendRequestCheckRequest(r) ==
  /\ sreq[r].pc = "fr_request"
  /\ LET q == sreq[r]
         existingRequest == RequestsBetween(q.userId, q.peerId)
     IN IF existingRequest = {}
        THEN sreq' = [sreq EXCEPT ![r] = [q EXCEPT !.pc = "fr_insert"]]
        ELSE \E x \in existingRequest :
               sreq' = [sreq EXCEPT ![r] =
                          IF x.sender_id = q.peerId /\ x.receiver_id = q.userId
                          THEN [q EXCEPT !.pc = "fr_accept"]
                          ELSE RespondS(q, 400)]
  /\ UNCHANGED <<friend_requests, friends, chat_messages, chat_group_messages,
                 chat_group_message_reads, nextMsgId, nextGroupMsgId, now,
                 groupVars, tokenVars, bcast>>

\* UPDATE friend_requests SET status = "accepted" WHERE id = ?
FriendRequestAccept(r) ==
  /\ sreq[r].pc = "fr_accept"
  /\ LET q == sreq[r] IN
       /\ friend_requests' =
            SetRequestStatus(friend_requests, q.peerId, q.userId, "accepted")
       /\ sreq' = [sreq EXCEPT ![r] = [q EXCEPT !.pc = "fr_befriend"]]
  /\ UNCHANGED friends
  /\ UNCHANGED <<chat_messages, chat_group_messages, chat_group_message_reads,
                 nextMsgId, nextGroupMsgId, now, groupVars, tokenVars, bcast>>

\* INSERT INTO friends (user_id, friend_id) VALUES (?, ?), (?, ?): one
\* statement, it throws on unique_friendship and then inserts neither row
InsertFriendship(r, q, next) ==
  IF FriendshipRows(q.userId, q.peerId) \cap friends # {}
  THEN /\ UNCHANGED friends
       /\ sreq' = [sreq EXCEPT ![r] = RespondS(q, 500)]
  ELSE /\ friends' = friends \cup FriendshipRows(q.userId, q.peerId)
       /\ sreq' = [sreq EXCEPT ![r] = next]

FriendRequestBefriend(r) ==
  /\ sreq[r].pc = "fr_befriend"
  /\ InsertFriendship(r, sreq[r], RespondS(sreq[r], 200))
  /\ UNCHANGED friend_requests
  /\ UNCHANGED <<chat_messages, chat_group_messages, chat_group_message_reads,
                 nextMsgId, nextGroupMsgId, now, groupVars, tokenVars, bcast>>

\* INSERT INTO friend_requests (sender_id, receiver_id): status 'pending';
\* it throws on unique_request
FriendRequestInsert(r) ==
  /\ sreq[r].pc = "fr_insert"
  /\ LET q == sreq[r] IN
       IF \E x \in friend_requests :
            x.sender_id = q.userId /\ x.receiver_id = q.peerId
       THEN /\ UNCHANGED friend_requests
            /\ sreq' = [sreq EXCEPT ![r] = RespondS(q, 500)]
       ELSE /\ friend_requests' =
                 friend_requests \cup {FriendRequest(q.userId, q.peerId, "pending")}
            /\ sreq' = [sreq EXCEPT ![r] = [q EXCEPT !.pc = "fr_notify"]]
  /\ UNCHANGED friends
  /\ UNCHANGED <<chat_messages, chat_group_messages, chat_group_message_reads,
                 nextMsgId, nextGroupMsgId, now, groupVars, tokenVars, bcast>>

\* await notificationService.sendFriendRequestNotification: returns null or
\* the gateway's answer, never throws
FriendRequestNotify(r) ==
  /\ sreq[r].pc = "fr_notify"
  /\ sreq' = [sreq EXCEPT ![r] = RespondS(sreq[r], 201)]
  /\ UNCHANGED <<friend_requests, friends, chat_messages, chat_group_messages,
                 chat_group_message_reads, nextMsgId, nextGroupMsgId, now,
                 groupVars, tokenVars, bcast>>

\* --------------------------------------------------- respondToFriendRequest
\* requestId names the request of peerId to the caller
RespondRequestStart(r) ==
  /\ sreq[r].pc \in {"idle", "done"}
  /\ \E u \in FriendCallers, s \in FriendCallers, act \in {"accept", "reject", "none"} :
       sreq' = [sreq EXCEPT ![r] =
                  IF act = "none"
                  THEN RespondS([IdleS EXCEPT !.op = "respondToFriendRequest"], 400)
                  ELSE [IdleS EXCEPT !.op = "respondToFriendRequest", !.pc = "rr_select",
                                     !.userId = u, !.peerId = s, !.action = act]]
  /\ UNCHANGED <<friend_requests, friends, chat_messages, chat_group_messages,
                 chat_group_message_reads, nextMsgId, nextGroupMsgId, now,
                 groupVars, tokenVars, bcast>>

\* SELECT ... WHERE id = ? AND receiver_id = ? AND status = "pending"
RespondRequestSelect(r) ==
  /\ sreq[r].pc = "rr_select"
  /\ LET q == sreq[r] IN
       sreq' = [sreq EXCEPT ![r] =
                  IF FriendRequest(q.peerId, q.userId, "pending") \in friend_requests
                  THEN [q EXCEPT !.pc = "rr_update"]
                  ELSE RespondS(q, 404)]
  /\ UNCHANGED <<friend_requests, friends, chat_messages, chat_group_messages,
                 chat_group_message_reads, nextMsgId, nextGroupMsgId, now,
                 groupVars, tokenVars, bcast>>

RespondRequestUpdate(r) ==
  /\ sreq[r].pc = "rr_update"
  /\ LET q == sreq[r] IN
       /\ friend_requests' =
            SetRequestStatus(friend_requests, q.peerId, q.userId,
                             IF q.action = "accept" THEN "accepted" ELSE "rejected")
       /\ sreq' = [sreq EXCEPT ![r] =
                     IF q.action = "accept" THEN [q EXCEPT !.pc = "rr_insert"]
                     ELSE RespondS(q, 200)]
  /\ UNCHANGED friends
  /\ UNCHANGED <<chat_messages, chat_group_messages, chat_group_message_reads,
                 nextMsgId, nextGroupMsgId, now, groupVars, tokenVars, bcast>>

RespondRequestInsert(r) ==
  /\ sreq[r].pc = "rr_insert"
  /\ InsertFriendship(r, sreq[r], [sreq[r] EXCEPT !.pc = "rr_notify"])
  /\ UNCHANGED friend_requests
  /\ UNCHANGED <<chat_messages, chat_group_messages, chat_group_message_reads,
                 nextMsgId, nextGroupMsgId, now, groupVars, tokenVars, bcast>>

\* await notificationService.sendFriendRequestAcceptedNotification
RespondRequestNotify(r) ==
  /\ sreq[r].pc = "rr_notify"
  /\ sreq' = [sreq EXCEPT ![r] = RespondS(sreq[r], 200)]
  /\ UNCHANGED <<friend_requests, friends, chat_messages, chat_group_messages,
                 chat_group_message_reads, nextMsgId, nextGroupMsgId, now,
                 groupVars, tokenVars, bcast>>

\* ------------------------------------------------------------ removeFriend
RemoveFriendStart(r) ==
  /\ sreq[r].pc \in {"idle", "done"}
  /\ \E u \in FriendCallers, f \in FriendCallers :
       sreq' = [sreq EXCEPT ![r] =
                  [IdleS EXCEPT !.op = "removeFriend", !.pc = "rf_check",
                                !.userId = u, !.peerId = f]]
  /\ UNCHANGED <<friend_requests, friends, chat_messages, chat_group_messages,
                 chat_group_message_reads, nextMsgId, nextGroupMsgId, now,
                 groupVars, tokenVars, bcast>>

RemoveFriendCheck(r) ==
  /\ sreq[r].pc = "rf_check"
  /\ LET q == sreq[r] IN
       sreq' = [sreq EXCEPT ![r] =
                  IF AreFriends(q.userId, q.peerId)
                  THEN [q EXCEPT !.pc = "rf_delete"]
                  ELSE RespondS(q, 404)]
  /\ UNCHANGED <<friend_requests, friends, chat_messages, chat_group_messages,
                 chat_group_message_reads, nextMsgId, nextGroupMsgId, now,
                 groupVars, tokenVars, bcast>>

RemoveFriendDelete(r) ==
  /\ sreq[r].pc = "rf_delete"
  /\ LET q == sreq[r] IN
       /\ friends' = DeleteFriendship(friends, q.userId, q.peerId)
       /\ sreq' = [sreq EXCEPT ![r] = [q EXCEPT !.pc = "rf_requests"]]
  /\ UNCHANGED friend_requests
  /\ UNCHANGED <<chat_messages, chat_group_messages, chat_group_message_reads,
                 nextMsgId, nextGroupMsgId, now, groupVars, tokenVars, bcast>>

\* DELETE FROM friend_requests WHERE ... either direction
RemoveFriendRequests(r) ==
  /\ sreq[r].pc = "rf_requests"
  /\ LET q == sreq[r] IN
       /\ friend_requests' = friend_requests \ RequestsBetween(q.userId, q.peerId)
       /\ sreq' = [sreq EXCEPT ![r] = RespondS(q, 200)]
  /\ UNCHANGED friends
  /\ UNCHANGED <<chat_messages, chat_group_messages, chat_group_message_reads,
                 nextMsgId, nextGroupMsgId, now, groupVars, tokenVars, bcast>>

FriendStep(r) ==
  \/ FriendRequestStart(r)
  \/ FriendRequestCheckUsers(r)
  \/ FriendRequestCheckFriends(r)
  \/ FriendRequestCheckRequest(r)
  \/ FriendRequestAccept(r)
  \/ FriendRequestBefriend(r)
  \/ FriendRequestInsert(r)
  \/ FriendRequestNotify(r)
  \/ RespondRequestStart(r)
  \/ RespondRequestSelect(r)
  \/ RespondRequestUpdate(r)
  \/ RespondRequestInsert(r)
  \/ RespondRequestNotify(r)
  \/ RemoveFriendStart(r)
  \/ RemoveFriendCheck(r)
  \/ RemoveFriendDelete(r)
  \/ RemoveFriendRequests(r)

SendMessageStep(r) ==
  \/ SendMessageStart(r)
  \/ SendMessageCheckFriend(r)
  \/ SendMessageCheckDuplicate(r)
  \/ SendMessageInsert(r)
  \/ SendMessageSelect(r)
  \/ NotifyChatSender(r)
  \/ NotifyChatToken(r)
  \/ NotifyChatMessageId(r)
  \/ NotifyChatDeliver(r)
  \/ ChatDbError(r)
  \/ NotifyDbError(r)

GroupReadStep(r) ==
  \/ GetGroupMessagesStart(r)
  \/ GetGroupMessagesCheckMember(r)
  \/ GetGroupMessagesSelect(r)
  \/ GetGroupMessagesMark(r)
  \/ MarkGroupReadStart(r)
  \/ MarkGroupReadCheckMember(r)
  \/ MarkGroupReadSelect(r)
  \/ MarkGroupReadMark(r)

DirectStep(r) ==
  \/ SendMessageStart(r)
  \/ SendMessageCheckFriend(r)
  \/ SendMessageCheckDuplicate(r)
  \/ SendMessageInsert(r)
  \/ SendMessageSelect(r)
  \/ NotifyChatSender(r)
  \/ NotifyChatToken(r)
  \/ NotifyChatMessageId(r)
  \/ NotifyChatDeliver(r)
  \/ GetChatHistoryStart(r)
  \/ GetChatHistoryCheckFriend(r)
  \/ GetChatHistorySelect(r)
  \/ GetChatHistoryMark(r)
  \/ MarkAsReadStart(r)
  \/ MarkAsReadUpdate(r)
  \/ ChatDbError(r)
  \/ NotifyDbError(r)

TokenStep(r) ==
  \/ RegisterTokenStart(r)
  \/ RegisterTokenCheckUser(r)
  \/ RegisterTokenCheckToken(r)
  \/ RegisterTokenRefresh(r)
  \/ RegisterTokenDelete(r)
  \/ RegisterTokenInsert(r)

GroupStep(r) ==
  \/ CreateGroupStart(r)
  \/ CreateGroupTx(r)
  \/ CreateGroupSelect(r)
  \/ AddMemberStart(r)
  \/ AddMemberCheckAdmin(r)
  \/ AddMemberCheckExisting(r)
  \/ AddMemberInsert(r)
  \/ RemoveMemberStart(r)
  \/ RemoveMemberCheckAdmin(r)
  \/ RemoveMemberCheckExisting(r)
  \/ RemoveMemberDelete(r)
  \/ LeaveGroupStart(r)
  \/ LeaveGroupCheckMember(r)
  \/ LeaveGroupCheckAdmins(r)
  \/ LeaveGroupReadOthers(r)
  \/ LeaveGroupPromote(r)
  \/ LeaveGroupDelete(r)
  \/ UpdateGroupStart(r)
  \/ UpdateGroupCheckAdmin(r)
  \/ UpdateGroupUpdate(r)
  \/ DbError(r)

Init == InitGroup /\ InitToken /\ InitChat

\* requests of the group directory, their storage steps interleaved
Next == \E r \in Req : GroupStep(r)
Spec == Init /\ [][Next]_vars

\* the slot of a server that takes requests one at a time
FirstSlot == CHOOSE r \in Req : \A q \in Req : r <= q

\* the same requests served one at a time: a request starts only when the
\* request before it was answered
NextSeq == GroupStep(FirstSlot)
SpecSeq == Init /\ [][NextSeq]_vars

\* token registrations, their storage steps interleaved
NextToken == \E r \in Req : TokenStep(r)
SpecToken == Init /\ [][NextToken]_vars

\* sends served one at a time, while the database clock advances
NextSend == SendStep(FirstSlot) \/ Tick
SpecSend == InitMessaging /\ [][NextSend]_vars

\* the same, where every storage step that is due is eventually taken; the
\* push gateway is outside the server and owes no answer
SpecSendFair == SpecSend /\ WF_vars(SendProgress(FirstSlot))

\* group sends served one at a time, from any membership and any registry
NextFanout == GroupSendStep(FirstSlot)
SpecFanout == InitFanout /\ [][NextFanout]_vars

\* the recipient whose deliveries the push gateway may leave unanswered
SlowRecipient == NumUsers

\* admin.messaging().send resolves or rejects for any other recipient
DeliverToOthers(r) ==
  /\ sreq[r].current # <<>>
  /\ sreq[r].current[1].user_id # SlowRecipient
  /\ NotifyGroupDeliver(r)

\* the fan-out with every server step fair and the gateway fair to every
\* recipient but the slow one
SpecFanoutFair ==
  /\ SpecFanout
  /\ WF_vars(SendProgress(FirstSlot))
  /\ WF_vars(DeliverToOthers(FirstSlot))

\* broadcasts, one at a time
SpecBroadcast == InitMessaging /\ [][BroadcastStep]_vars

\* group sends and group reads, their storage steps interleaved
NextGroupChat == \E r \in Req : GroupSendStep(r) \/ GroupReadStep(r)
SpecGroupChat == InitMessaging /\ [][NextGroupChat]_vars

\* group sends and group reads served one at a time, while time passes
NextGroupChatSeq == GroupSendStep(FirstSlot) \/ GroupReadStep(FirstSlot) \/ Tick
SpecGroupChatSeq == InitMessaging /\ [][NextGroupChatSeq]_vars

\* group reads served one at a time on a group with a history, while time
\* passes
NextGroupRead == GroupReadStep(FirstSlot) \/ ChatDbError(FirstSlot) \/ Tick
SpecGroupRead == InitHistory /\ [][NextGroupRead]_vars

\* deleteGroup requests served one at a time
NextDelete == DeleteGroupStep(FirstSlot)
SpecDelete == InitDelete /\ [][NextDelete]_vars

\* friend requests, removals and direct sends served one at a time
NextFriends == FriendStep(FirstSlot) \/ SendMessageStep(FirstSlot)
SpecFriends == InitMessaging /\ [][NextFriends]_vars

\* direct messaging requests, their storage steps interleaved
NextDirect == \E r \in Req : DirectStep(r)
SpecDirect == InitMessaging /\ [][NextDirect]_vars

\* friend operations of concurrent requests, interleaved at their awaits
NextFriendsPar == \E r \in Req : FriendStep(r) \/ ChatDbError(r)
SpecFriendsPar == InitMessaging /\ [][NextFriendsPar]_vars

\* the groups that have a row and no member
OrphanGroups == {g \in GroupIds : g \in chat_groups /\ MemberIds(g) = {}}

\* the group directory with deleteGroup, and sendGroupMessage and
\* getGroupMessages requests for groups that have lost their last member;
\* one request at a time
NextOrphan ==
  \/ GroupStep(FirstSlot)
  \/ DeleteGroupStart(FirstSlot)
  \/ DeleteGroupCheckAdmin(FirstSlot)
  \/ DeleteGroupDelete(FirstSlot)
  \/ SendGroupMessageTo(FirstSlot, OrphanGroups)
  \/ SendGroupMessageCheckMember(FirstSlot)
  \/ GetGroupMessagesOf(FirstSlot, OrphanGroups)
  \/ GetGroupMessagesCheckMember(FirstSlot)
  \/ ChatDbError(FirstSlot)
SpecOrphan == Init /\ [][NextOrphan]_vars

\* direct messaging requests served one at a time
NextDirectSeq == DirectStep(FirstSlot)
SpecDirectSeq == InitMessaging /\ [][NextDirectSeq]_vars

\* ================================================================ claims

\* C1: every group that has at least one member has at least one admin, in
\* every reachable state under any interleaving of createGroup,
\* addGroupMember, removeGroupMember and leaveGroup.
C1_NonEmptyGroupHasAdmin ==
  \A g \in GroupIds : MemberIds(g) # {} => AdminIds(g) # {}

\* C2: leaveGroup by the sole admin of a group with other members: while the
\* request runs the group is never non-empty without an admin, and when it
\* answers 200 the leaver is gone, the membership shrank by exactly the
\* leaver and the member it promoted is the one and only admin.
LeaverIsSoleAdmin(q) == q.op = "leaveGroup" /\ q.admins = 1 /\ q.first # 0
C2_Intermediate ==
  \A r \in Req :
    (greq[r].op = "leaveGroup" /\ greq[r].pc # "done" /\ greq[r].isAdmin)
      => (MemberIds(greq[r].groupId) = {} \/ AdminIds(greq[r].groupId) # {})
C2_Final ==
  \A r \in Req :
    (greq[r].pc = "lv_delete" /\ LeaverIsSoleAdmin(greq[r])
       /\ greq'[r].pc = "done" /\ greq'[r].status = 200)
      => LET g == greq[r].groupId IN
           /\ MemberIds(g)' = MemberIds(g) \ {greq[r].userId}
           /\ greq[r].userId \in MemberIds(g)
           /\ AdminIds(g)' = {greq[r].first}
           /\ greq[r].first \in MemberIds(g)'
C2_SoleAdminLeavePromotes == [](C2_Intermediate) /\ [][C2_Final]_vars
\* a sole admin has left a two-member group: the other member is the admin
\* of a one-member group
C2_Witness ==
  \E r \in Req :
    /\ greq[r].op = "leaveGroup" /\ greq[r].pc = "done" /\ greq[r].status = 200
    /\ greq[r].first # 0
    /\ MemberIds(greq[r].groupId) = {greq[r].first}
    /\ AdminIds(greq[r].groupId) = {greq[r].first}

\* C3: createGroup is all or nothing: the transaction step either adds the
\* group with the creator as admin and every listed id that resolves to a
\* user, or adds nothing; and a createGroup that answered with a failure has
\* left no group row and no membership row.
ValidMemberSet(q) == {q.userId} \cup (Range(q.members) \cap Users)
C3_TxAllOrNothing ==
  \A r \in Req :
    (greq[r].pc = "cg_tx" /\ greq'[r].pc # "cg_tx")
      => LET g == greq'[r].groupId IN
           \/ /\ g \in chat_groups'
              /\ MemberIdsIn(chat_group_members', g) = ValidMemberSet(greq[r])
              /\ AdminIdsIn(chat_group_members', g) = {greq[r].userId}
           \/ /\ g \notin chat_groups'
              /\ MemberIdsIn(chat_group_members', g) = {}
              /\ greq'[r].status = 500
C3_NoFailureWhilePersisted ==
  \A r \in Req :
    (greq[r].op = "createGroup" /\ greq[r].pc = "done" /\ greq[r].status # 201)
      => (greq[r].groupId \notin chat_groups /\ MemberIds(greq[r].groupId) = {})
C3_CreateGroupAtomic == [](C3_NoFailureWhilePersisted) /\ [][C3_TxAllOrNothing]_vars

\* C5: the registry never holds two token rows for one user, under any
\* interleaving of registrations; and a registration that replaces the
\* user's token (a token different from the stored one) leaves exactly one
\* row for the user, carrying the new token.
C5_RowsPerUser ==
  \A u \in Users : Cardinality({x \in user_fcm_tokens : x.user_id = u}) <= 1
C5_Replaced ==
  \A r \in Req :
    (treq[r].pc = "tk_insert" /\ treq'[r].pc = "done" /\ treq'[r].status = 200)
      => {x \in user_fcm_tokens' : x.user_id = treq[r].userId}
            = {TokenRow(treq[r].userId, treq[r].token)}
C5_SingleTokenPerUser == [](C5_RowsPerUser) /\ [][C5_Replaced]_vars
\* a user registered one token and then a different one: both requests were
\* answered 200 and the registry holds the user's row with the second token
C5_Witness ==
  \E u \in Users : \E t1, t2 \in Tokens :
    /\ t1 # t2
    /\ treq[1] = [pc |-> "done", userId |-> u, token |-> t1, status |-> 200]
    /\ treq[2] = [pc |-> "done", userId |-> u, token |-> t2, status |-> 200]
    /\ TokensOf(u) = {t2}

\* C6: token replacement is atomic per user: no registration of an existing
\* user with a non-empty token is answered with an error, and a user who
\* has a token row never becomes a user without one.
C6_NoConflictError ==
  \A r \in Req : treq[r].pc = "done" => treq[r].status \in {200, 400, 404}
C6_NeverWithoutToken ==
  \A u \in Users : TokensOf(u) # {} => {x \in user_fcm_tokens' : x.user_id = u} # {}
C6_AtomicReplacement == [](C6_NoConflictError) /\ [][C6_NeverWithoutToken]_vars

\* C4: a send that repeats a (sender, receiver, body) row, or a
\* (group, sender, body) row, created less than 10 seconds of the database
\* clock ago is answered with the id of that row and inserts nothing, so the
\* store never holds two such rows less than 10 seconds apart; a send with no
\* such row (another body, receiver or group, or a row 10 or more seconds
\* old) inserts exactly one new row.  Requests are served one at a time.
SameDirect(a, b) ==
  a.sender_id = b.sender_id /\ a.receiver_id = b.receiver_id /\ a.message = b.message
SameGroup(a, b) ==
  a.group_id = b.group_id /\ a.sender_id = b.sender_id /\ a.message = b.message
Apart(a, b) ==
  a.created_at - b.created_at >= DedupWindow \/ b.created_at - a.created_at >= DedupWindow
C4_NoRecentTwin ==
  /\ \A a, b \in chat_messages : (a.id # b.id /\ SameDirect(a, b)) => Apart(a, b)
  /\ \A a, b \in chat_group_messages : (a.id # b.id /\ SameGroup(a, b)) => Apart(a, b)
C4_DirectResend ==
  \A r \in Req :
    LET q == sreq[r]
        probe == Message(0, q.userId, q.peerId, q.message, now)
        twins == {m \in chat_messages : SameDirect(m, probe) /\ ~Apart(m, probe)}
    IN /\ (q.pc = "sm_dup" /\ sreq'[r] # q /\ twins # {})
            => /\ chat_messages' = chat_messages
               /\ sreq'[r].pc = "done"
               /\ \/ sreq'[r].status = 500
                  \/ /\ sreq'[r].status = 200 /\ sreq'[r].isDuplicate
                     /\ sreq'[r].insertId \in {m.id : m \in twins}
       /\ (q.pc = "sm_dup" /\ sreq'[r] # q /\ twins = {})
            => (sreq'[r].pc = "sm_insert" \/ sreq'[r].status = 500)
       /\ (q.pc = "sm_insert" /\ sreq'[r].pc = "sm_select")
            => /\ chat_messages' = chat_messages \cup {[probe EXCEPT !.id = sreq'[r].insertId]}
               /\ sreq'[r].insertId \notin {m.id : m \in chat_messages}
C4_GroupResend ==
  \A r \in Req :
    LET q == sreq[r]
        probe == GroupMessage(0, q.groupId, q.userId, q.message, now)
        twins == {m \in chat_group_messages : SameGroup(m, probe) /\ ~Apart(m, probe)}
    IN /\ (q.pc = "sg_dup" /\ sreq'[r] # q /\ twins # {})
            => /\ chat_group_messages' = chat_group_messages
               /\ sreq'[r].pc = "done"
               /\ \/ sreq'[r].status = 500
                  \/ /\ sreq'[r].status = 200 /\ sreq'[r].isDuplicate
                     /\ sreq'[r].insertId \in {m.id : m \in twins}
       /\ (q.pc = "sg_dup" /\ sreq'[r] # q /\ twins = {})
            => (sreq'[r].pc = "sg_insert" \/ sreq'[r].status = 500)
       /\ (q.pc = "sg_insert" /\ sreq'[r].pc = "sg_select")
            => /\ chat_group_messages' =
                    chat_group_messages \cup {[probe EXCEPT !.id = sreq'[r].insertId]}
               /\ sreq'[r].insertId \notin {m.id : m \in chat_group_messages}
C4_ResendWithinWindow ==
  [](C4_NoRecentTwin) /\ [][C4_DirectResend /\ C4_GroupResend]_vars
\* the same body was sent again to the same friend while the row was less
\* than 10 seconds old: the answer carries the id of the one row there is,
\* and the receiver has one unread message
C4_Witness ==
  \E m \in chat_messages :
    /\ chat_messages = {m}
    /\ sreq[FirstSlot].op = "sendMessage" /\ sreq[FirstSlot].pc = "done"
    /\ sreq[FirstSlot].status = 200 /\ sreq[FirstSlot].isDuplicate
    /\ sreq[FirstSlot].insertId = m.id
    /\ now > m.created_at
    /\ UnreadCount(m.receiver_id) = 1

\* C7: the step of getChatHistory(U, F) that answers 200 sets is_read on
\* every row with sender F and receiver U and leaves every other row (sent
\* by U, or sent by anyone but F) as it was.  Requests are served one at a
\* time.
C7_MarkStep ==
  \A r \in Req :
    (sreq[r].pc = "gh_mark" /\ sreq'[r].pc = "done" /\ sreq'[r].status = 200)
      => LET U == sreq[r].userId
             F == sreq[r].peerId
         IN /\ \A m \in chat_messages :
                 IF m.sender_id = F /\ m.receiver_id = U
                 THEN [m EXCEPT !.is_read = TRUE] \in chat_messages'
                 ELSE m \in chat_messages'
            /\ {m.id : m \in chat_messages'} = {m.id : m \in chat_messages}
            /\ Cardinality(chat_messages') = Cardinality(chat_messages)
C7_HistoryMarksOnlyIncoming == [][C7_MarkStep]_vars
\* a user with two friends has read the history with one of them: the
\* message of that friend is read, the message of the other friend is not
C7_Witness ==
  \E r \in Req : \E m1, m2 \in chat_messages :
    /\ sreq[r].op = "getChatHistory" /\ sreq[r].pc = "done" /\ sreq[r].status = 200
    /\ \A q \in Req \ {r} : sreq[q].op \in {"idle", "sendMessage"}
    /\ m1.receiver_id = m2.receiver_id /\ m1.sender_id # m2.sender_id
    /\ m1.is_read /\ ~m2.is_read

\* C8: every step keeps every direct message row with its id, sender,
\* receiver, body and created_at; is_read never goes back to false; and a
\* step that sets is_read is the answering step of a getChatHistory or
\* markAsRead whose caller is the receiver of the row.
C8_Step ==
  \A m \in chat_messages :
    \E n \in chat_messages' :
      /\ n.id = m.id /\ n.sender_id = m.sender_id /\ n.receiver_id = m.receiver_id
      /\ n.message = m.message /\ n.created_at = m.created_at
      /\ m.is_read => n.is_read
      /\ (n.is_read # m.is_read)
           => \E r \in Req :
                /\ sreq[r].op \in {"getChatHistory", "markAsRead"}
                /\ sreq[r].userId = m.receiver_id
                /\ sreq[r].pc # "done" /\ sreq'[r].pc = "done"
C8_UniqueIds ==
  \A a, b \in chat_messages : a.id = b.id => a = b
C8_ReadFlagMonotone == [](C8_UniqueIds) /\ [][C8_Step]_vars
\* the receiver's markAsRead has set the flag of a message
C8_Witness ==
  \E r \in Req : \E m \in chat_messages :
    /\ sreq[r].op = "markAsRead" /\ sreq[r].pc = "done" /\ sreq[r].status = 200
    /\ \A q \in Req \ {r} : sreq[q].op \in {"idle", "sendMessage"}
    /\ m.is_read

\* C9: a send whose notification is with the push gateway is answered even
\* if the gateway never completes the delivery: once the delivery attempt
\* has started, the response follows.
C9_AnsweredWithoutDelivery ==
  \A r \in Req :
    (sreq[r].pc \in {"nc_deliver", "ng_await"}) ~> (sreq[r].pc = "done")

\* C10: no step of a dispatcher operation removes or changes a message row,
\* and a send whose dispatcher operation ends, by a failed lookup, a
\* rejected statement, a rejected delivery or no valid token, is answered
\* with its success code, the dispatcher's result being null or the gateway's
\* response, and the appended row is still in the store.
DispatcherPcs == DispatcherQueries \cup {"nc_deliver", "ng_deliver", "ng_await"}
C10_Step ==
  \A r \in Req :
    (sreq[r].pc \in DispatcherPcs /\ sreq'[r] # sreq[r])
      => /\ chat_messages' = chat_messages
         /\ chat_group_messages' = chat_group_messages
         /\ sreq'[r].pc = "done"
              => /\ sreq'[r].status = SuccessCode(sreq[r])
                 /\ sreq'[r].notified \in {"null", "sent"}
                 /\ sreq'[r].insertId \in
                      {m.id : m \in IF sreq[r].op = "sendMessage"
                                    THEN chat_messages' ELSE chat_group_messages'}
C10_DispatcherNeverThrows == [][C10_Step]_vars
\* a direct message to a user with a valid device token was answered 201
\* although the dispatcher returned null: the row is in the store
C10_Witness ==
  \E m \in chat_messages :
    /\ sreq[FirstSlot].op = "sendMessage" /\ sreq[FirstSlot].pc = "done"
    /\ sreq[FirstSlot].status = 201 /\ sreq[FirstSlot].notified = "null"
    /\ sreq[FirstSlot].insertId = m.id
    /\ \E t \in TokensOf(m.receiver_id) : ValidToken(t)

\* C11: in a group message notification the token rows handed to the push
\* gateway are rows of current members other than the sender with a
\* non-blank token, none is handed over twice, the loop goes on after a
\* rejected delivery so that when it ends every such row was handed over
\* exactly once, and the send is answered 200 whatever the outcomes were.
ValidRowsOfOthers(g, s) ==
  {x \in user_fcm_tokens : x.user_id \in MemberIds(g) \ {s} /\ ValidToken(x.fcm_token)}
C11_Step ==
  \A r \in Req :
    LET q == sreq[r]
        due == ValidRowsOfOthers(q.groupId, q.userId)
    IN (q.op = "sendGroupMessage" /\ q.pc \in DispatcherPcs /\ sreq'[r] # q)
         => /\ Range(sreq'[r].attempts) \subseteq due
            /\ Cardinality(Range(sreq'[r].attempts)) = Len(sreq'[r].attempts)
            /\ sreq'[r].pc = "done" => sreq'[r].status = 200
            /\ q.pc = "ng_await"
                 => IF q.pending = {}
                    THEN sreq'[r].pc = "done" /\ Range(sreq'[r].attempts) = due
                    ELSE sreq'[r].pc = "ng_deliver"
C11_FanoutReachesEveryValidToken == [][C11_Step]_vars
\* two members other than the sender hold device tokens: the gateway
\* rejected the first, the second was handed over all the same and rejected
\* too, the dispatcher returned null and the send was answered 200
C11_Witness ==
  /\ sreq[FirstSlot].op = "sendGroupMessage" /\ sreq[FirstSlot].pc = "done"
  /\ sreq[FirstSlot].status = 200
  /\ Len(sreq[FirstSlot].attempts) = 2 /\ sreq[FirstSlot].notified = "null"

\* C12: a new-event or new-venue broadcast that found more than 50 valid
\* tokens has, when it returns, handed exactly the first 50 of them to the
\* push gateway, whatever the outcomes were, and it returns a result (null or
\* the responses) rather than throwing.
C12_BroadcastCapAttempts ==
  (bcast.pc = "done" /\ bcast.validTokens > MaxTokens)
    => (bcast.attempted = MaxTokens /\ bcast.result \in {"null", "responses"})

\* C13: in a group fan-out, a delivery to one recipient that never completes
\* does not block the others: every other valid token that the loop still
\* has to serve is eventually handed to the push gateway.
C13_InLoop(x) ==
  /\ sreq[FirstSlot].pc \in {"ng_deliver", "ng_await"}
  /\ x \in sreq[FirstSlot].pending
  /\ x.user_id # SlowRecipient

C13_Started(x) == x \in Range(sreq[FirstSlot].attempts)

C13_HungDeliveryDoesNotBlock ==
  \A x \in {TokenRow(u, t) : u \in Users, t \in Tokens} :
    C13_InLoop(x) ~> C13_Started(x)

\* C14: removeGroupMember is rejected, with the membership unchanged, exactly
\* when the acting user is not an admin of the group, or the target is not a
\* member, or the target is the sole admin while other members remain; in
\* every other case (a sole admin who is the only member included) the
\* target's membership row is removed.
C14_MustReject(q) ==
  \/ ~IsAdmin(q.groupId, q.userId)
  \/ ~IsMember(q.groupId, q.memberId)
  \/ /\ AdminIds(q.groupId) = {q.memberId}
     /\ MemberIds(q.groupId) # {q.memberId}

C14_Step ==
  LET q == greq[FirstSlot]
      a == greq'[FirstSlot]
  IN (q.op = "removeGroupMember" /\ q.pc # "done" /\ a.pc = "done" /\ a.status # 500)
       => IF C14_MustReject(q)
          THEN a.status # 200 /\ chat_group_members' = chat_group_members
          ELSE /\ a.status = 200
               /\ chat_group_members' =
                    {m \in chat_group_members :
                       ~(m.group_id = q.groupId /\ m.user_id = q.memberId)}

C14_RemoveMemberContract == [][C14_Step]_vars

\* C15: addGroupMember answers 403 unless the acting user is an admin of the
\* group, and fails if the new user is already a member; a failure leaves the
\* membership unchanged, a success adds the new user as a non-admin member,
\* and no (group, user) pair ever has two membership rows.
C15_OneRowPerPair(rows) ==
  \A x, y \in rows : (x.group_id = y.group_id /\ x.user_id = y.user_id) => x = y

C15_Step ==
  LET q == greq[FirstSlot]
      a == greq'[FirstSlot]
  IN /\ C15_OneRowPerPair(chat_group_members')
     /\ (q.op = "addGroupMember" /\ q.pc # "done" /\ a.pc = "done" /\ a.status # 500)
          => IF ~IsAdmin(q.groupId, q.userId)
             THEN a.status = 403 /\ chat_group_members' = chat_group_members
             ELSE IF IsMember(q.groupId, q.memberId)
                  THEN a.status = 400 /\ chat_group_members' = chat_group_members
                  ELSE /\ a.status = 200
                       /\ chat_group_members' = chat_group_members \cup
                            {[group_id |-> q.groupId, user_id |-> q.memberId,
                              is_admin |-> FALSE]}
                       /\ chat_group_members' # chat_group_members
     /\ (q.op = "addGroupMember" /\ a.pc = "done" /\ a.status = 500)
          => chat_group_members' = chat_group_members

C16_SenderReadRowExists ==
  \A r \in Req :
    (sreq[r].op = "sendGroupMessage" /\ sreq[r].pc = "done" /\ sreq[r].status = 200)
      => \A m \in chat_group_messages :
           m.id = sreq[r].insertId
             => HasRead(chat_group_message_reads, m.id, m.sender_id)

\* C17: markGroupMessagesAsRead leaves a read row for the user on every
\* message of its unread set, and the count it returns is the number of read
\* rows it newly created, also when a getGroupMessages or another
\* markGroupMessagesAsRead of the same user runs in between: every pass of
\* its loop adds to the count exactly the rows it added to the table.
C17_Step ==
  \A r \in Req :
    LET q == sreq[r]
        a == sreq'[r]
    IN (q.op = "markGroupMessagesAsRead" /\ q.pc = "mg_mark" /\ a # q)
         => /\ a.count - q.count =
                 Cardinality(chat_group_message_reads') - Cardinality(chat_group_message_reads)
            /\ a.count > q.count
                 => \A i \in q.unread \ a.unread :
                      HasRead(chat_group_message_reads', i, q.userId)

C17_MarkedCountIsNewRows == [][C17_Step]_vars

\* C18: getGroupMessages answers 403 and creates no read row when the
\* requester is not a member of the group; for a member it leaves a read row
\* for every returned message, a call that finds everything read changes
\* nothing and raises no error, and at most one read row exists per
\* (message, user).
C18_OneRowPerPair(rows) ==
  \A x, y \in rows :
    (x.message_id = y.message_id /\ x.user_id = y.user_id) => x = y

C18_Step ==
  LET q == sreq[FirstSlot]
      a == sreq'[FirstSlot]
      member == IsMember(q.groupId, q.userId)
  IN /\ C18_OneRowPerPair(chat_group_message_reads')
     /\ (q.op = "getGroupMessages" /\ q.pc # "done" /\ a # q)
          => /\ (q.pc = "gm_member" /\ a.status # 500)
                  => IF member THEN a.pc = "gm_select"
                     ELSE a.pc = "done" /\ a.status = 403
             /\ chat_group_message_reads' # chat_group_message_reads => member
             /\ (a.pc = "done" /\ a.status = 200 /\ a.errors = 0)
                  => \A i \in GroupMessageIds(q.groupId) :
                       HasRead(chat_group_message_reads', i, q.userId)
             /\ UnreadGroupMessages(q.groupId, q.userId) = {}
                  => /\ chat_group_message_reads' = chat_group_message_reads
                     /\ (a.pc = "done" /\ q.pc # "gm_member" /\ a.status # 500)
                          => a.status = 200

C18_GroupHistoryMarksRead == [][C18_Step]_vars

C18_Witness ==
  /\ sreq[FirstSlot].op = "getGroupMessages"
  /\ sreq[FirstSlot].pc = "done"
  /\ sreq[FirstSlot].status = 200
  /\ sreq[FirstSlot].errors = 0
  /\ \E x \in chat_group_message_reads, m \in chat_group_messages :
       m.id = x.message_id /\ m.sender_id # x.user_id /\ x.read_at > m.created_at

\* C19: deleteGroup answers 403 and changes nothing unless the acting user is
\* an admin of the group; on success the group row, its membership rows, its
\* messages and the read rows of those messages are gone, and the rows of
\* other groups are unchanged.
C19_Tables ==
  <<chat_groups, chat_group_members, chat_group_messages, chat_group_message_reads>>

C19_Step ==
  LET q == greq[FirstSlot]
      a == greq'[FirstSlot]
      g == q.groupId
      gone == {m \in chat_group_messages : m.group_id = g}
  IN (q.op = "deleteGroup" /\ q.pc # "done" /\ a # q)
       => IF a.pc = "done" /\ a.status = 200
          THEN /\ IsAdmin(g, q.userId)
               /\ chat_groups' = chat_groups \ {g}
               /\ chat_group_members' = {m \in chat_group_members : m.group_id # g}
               /\ chat_group_messages' = chat_group_messages \ gone
               /\ chat_group_message_reads' =
                    {x \in chat_group_message_reads :
                       \A m \in gone : m.id # x.message_id}
               /\ \A x \in chat_group_message_reads' :
                    \E m \in chat_group_messages' : m.id = x.message_id
          ELSE /\ C19_Tables' = C19_Tables
               /\ (q.pc = "dg_admin" /\ a.status # 500)
                    => IF IsAdmin(g, q.userId) THEN a.pc = "dg_delete"
                       ELSE a.pc = "done" /\ a.status = 403
               /\ q.pc = "dg_delete" => a.status = 500

C19_DeleteGroupCascades == [][C19_Step]_vars

C19_Witness ==
  /\ greq[FirstSlot].op = "deleteGroup"
  /\ greq[FirstSlot].pc = "done"
  /\ greq[FirstSlot].status = 200
  /\ greq[FirstSlot].groupId = ArchiveGroup
  /\ chat_groups = {1}
  /\ MemberIds(ArchiveGroup) = {} /\ MemberIds(1) # {}
  /\ GroupMessageIds(ArchiveGroup) = {} /\ GroupMessageIds(1) # {}
  /\ ~HasRead(chat_group_message_reads, ArchiveMessage, 1)
  /\ chat_group_message_reads # {}

\* C20: sendMessage inserts no direct-message row and dispatches no
\* notification when the body is empty or when sender and receiver are not
\* friends at the check; once removeFriend has answered with success the two
\* are not friends, and stay so until a friend request between them is
\* accepted, so every send between them that starts in between is rejected.
C20_Friends(rows, x, y) == \E p \in rows : p = <<x, y>> \/ p = <<y, x>>

C20_Step ==
  LET q == sreq[FirstSlot]
      a == sreq'[FirstSlot]
  IN /\ (q.pc \in {"idle", "done"} /\ a.op = "sendMessage" /\ a.pc = "done")
          => /\ a.status = 400 /\ a.notified = "none" /\ a.insertId = 0
             /\ chat_messages' = chat_messages
     /\ (q.op = "sendMessage" /\ q.pc = "sm_friend" /\ a # q
           /\ ~C20_Friends(friends, q.userId, q.peerId))
          => /\ a.pc = "done" /\ a.status \in {403, 500}
             /\ a.notified = "none" /\ a.insertId = 0
             /\ chat_messages' = chat_messages
     /\ (\E m \in chat_messages' : \A n \in chat_messages : n.id # m.id)
          => /\ q.op = "sendMessage" /\ q.pc = "sm_insert"
             /\ C20_Friends(friends, q.userId, q.peerId)
     /\ (a.op = "sendMessage" /\ a.pc \in {"nc_sender", "nc_token", "nc_msgid", "nc_deliver"})
          => C20_Friends(friends', a.userId, a.peerId)
     /\ (q.op = "removeFriend" /\ q.pc # "done" /\ a.pc = "done" /\ a.status = 200)
          => ~C20_Friends(friends', q.userId, q.peerId)
     /\ \A x, y \in Users :
          (~C20_Friends(friends, x, y) /\ C20_Friends(friends', x, y))
            => /\ q.pc \in {"fr_befriend", "rr_insert"}
               /\ {x, y} = {q.userId, q.peerId}

C20_SendNeedsFriendship == [][C20_Step]_vars

C20_Witness ==
  /\ sreq[FirstSlot].op = "sendMessage"
  /\ sreq[FirstSlot].pc = "done"
  /\ sreq[FirstSlot].status = 403
  /\ ~C20_Friends(friends, 1, 2)
  /\ RequestsBetween(1, 2) = {}
  /\ \E m \in chat_messages : {m.sender_id, m.receiver_id} = {1, 2}

\* C21: every messaging operation authorizes before it mutates: markAsRead
\* on a direct conversation of two users who are not friends is rejected and
\* changes no is_read flag, as getChatHistory and sendMessage are rejected,
\* and markGroupMessagesAsRead is rejected for a non-member.
C21_Step ==
  LET q == sreq[FirstSlot]
      a == sreq'[FirstSlot]
  IN /\ (q.op \in {"markAsRead", "getChatHistory", "sendMessage"}
          /\ q.pc \in {"mr_mark", "gh_friend", "sm_friend"} /\ a # q
          /\ ~C20_Friends(friends, q.userId, q.peerId))
          => /\ a.pc = "done" /\ a.status \in {403, 500}
             /\ chat_messages' = chat_messages
     /\ (q.op = "markGroupMessagesAsRead" /\ q.pc = "mg_member" /\ a # q
          /\ ~IsMember(q.groupId, q.userId))
          => /\ a.pc = "done" /\ a.status \in {403, 500}
             /\ chat_group_message_reads' = chat_group_message_reads

C21_AuthorizeBeforeMutate == [][C21_Step]_vars

\* C22: no dispatcher operation and no call of the delivery primitive changes
\* the device registry: whatever the gateway answered, the stored token rows
\* are the same after a dispatcher step as before it.
C22_Step ==
  \A r \in Req :
    (sreq[r].pc \in DispatcherPcs /\ sreq'[r] # sreq[r])
      => user_fcm_tokens' = user_fcm_tokens

C22_DispatchLeavesRegistry == [][C22_Step]_vars

C22_Witness ==
  /\ sreq[FirstSlot].op = "sendGroupMessage" /\ sreq[FirstSlot].pc = "done"
  /\ sreq[FirstSlot].notified = "null"
  /\ Len(sreq[FirstSlot].attempts) = 1
  /\ Range(sreq[FirstSlot].attempts) \subseteq user_fcm_tokens

\* C23: every message a getChatHistory request marks as read is one of the
\* messages the same request returns, also when a sendMessage from the friend
\* inserts a row between the request's SELECT and its UPDATE.
C23_Marked ==
  {m.id : m \in {x \in chat_messages :
                   /\ ~x.is_read
                   /\ \E y \in chat_messages' : y.id = x.id /\ y.is_read}}

C23_Step ==
  \A r \in Req :
    (sreq[r].op = "getChatHistory" /\ sreq[r].pc = "gh_mark" /\ sreq'[r].pc = "done")
      => C23_Marked \subseteq sreq[r].messages

C23_MarkedWereReturned == [][C23_Step]_vars

\* C24: under any interleaving of concurrent send requests the store never
\* holds two direct rows with the same (sender, receiver, body), nor two group
\* rows with the same (group, sender, body), created less than 10 seconds
\* apart.
C24_DirectTwins ==
  {pair \in chat_messages \X chat_messages :
     pair[1].id < pair[2].id /\ SameDirect(pair[1], pair[2]) /\ ~Apart(pair[1], pair[2])}

C24_GroupTwins ==
  {pair \in chat_group_messages \X chat_group_messages :
     pair[1].id < pair[2].id /\ SameGroup(pair[1], pair[2]) /\ ~Apart(pair[1], pair[2])}

C24_NoTwinsWhenConcurrent == C24_DirectTwins = {} /\ C24_GroupTwins = {}

\* C25: the messageId in the payload of a direct or group message
\* notification is the id of the row the triggering send inserted, also when
\* another send of the same sender to the same receiver or group inserts a row
\* between that insert and the dispatcher's lookup.
C25_Step ==
  \A r \in Req :
    LET q == sreq[r]  a == sreq'[r]
    IN /\ (q.pc = "nc_msgid" /\ a.pc = "nc_deliver") => a.messageId = q.insertId
       /\ (q.pc = "ng_msgid" /\ a.pc = "ng_deliver") => a.messageId = q.insertId

C25_PayloadNamesTrigger == [][C25_Step]_vars

\* C26: a send answered with a duplicate-suppressed existing row invokes no
\* dispatcher operation and inserts no read marker; the dispatcher is entered
\* only by a send that has inserted its row, once, after the insert; and a
\* send that inserted a row is not answered before it has gone through the
\* dispatcher.
C26_Entry == {"nc_sender", "ng_sender"}

C26_Step ==
  \A r \in Req :
    LET q == sreq[r]  a == sreq'[r]
    IN /\ (q.pc \in {"sm_dup", "sg_dup"} /\ a.pc = "done" /\ a.isDuplicate)
            => /\ chat_group_message_reads' = chat_group_message_reads
               /\ chat_messages' = chat_messages
               /\ chat_group_messages' = chat_group_messages
       /\ (a.pc \in C26_Entry /\ a # q)
            => /\ q.pc \in {"sm_select", "sg_read"}
               /\ ~q.isDuplicate
               /\ q.insertId \in {m.id : m \in chat_messages \cup chat_group_messages}
       /\ (q.op \in {"sendMessage", "sendGroupMessage"} /\ q.pc # "done" /\ a.pc = "done"
             /\ q.insertId # 0 /\ ~a.isDuplicate)
            => q.pc \in DispatcherPcs

C26_OneDispatchPerStoredMessage == [][C26_Step]_vars

\* C27: after any sequence and interleaving of sendFriendRequest,
\* respondToFriendRequest and removeFriend the friends table is symmetric:
\* it holds the row (A, B) exactly when it holds the row (B, A).
C27_FriendsSymmetric == \A p \in friends : <<p[2], p[1]>> \in friends

\* a friendship was removed and made again: one request accepted the pending
\* request, the other answered the same request by sending one back
C27_Witness ==
  /\ \E r \in Req : /\ sreq[r].op = "sendFriendRequest" /\ sreq[r].pc = "done"
                    /\ sreq[r].status = 200
  /\ \E r \in Req : /\ sreq[r].op = "respondToFriendRequest" /\ sreq[r].pc = "done"
                    /\ sreq[r].status = 500
  /\ FriendshipRows(1, 2) \subseteq friends

\* C28: the status of a friend request only changes from pending to accepted
\* or from pending to rejected: a request that is rejected is never accepted
\* later, and no friendship of its two users is created while it is rejected.
C28_Step ==
  \A x \in friend_requests :
    /\ x.status # "pending"
         => \A y \in friend_requests' :
              (y.sender_id = x.sender_id /\ y.receiver_id = x.receiver_id)
                => y.status = x.status
    /\ (x.status = "rejected" /\ ~AreFriends(x.sender_id, x.receiver_id))
         => FriendshipRows(x.sender_id, x.receiver_id) \cap friends' = {}

C28_RejectedStaysRejected == [][C28_Step]_vars

\* C29: sendAddedToGroupNotification is called only for a user whose
\* membership row the request inserted, and in createGroup only after the
\* commit: never by a request that is answered with an error (a creation
\* rolled back included), never for the creator or the acting admin, never
\* for an id that is not a user.
C29_Step ==
  LET q == greq[FirstSlot]
      a == greq'[FirstSlot]
      inserted == {x.user_id : x \in {y \in chat_group_members' \ chat_group_members :
                                        y.group_id = a.groupId /\ ~y.is_admin}}
  IN /\ (a.pc = "done" /\ a.status \notin {200, 201}) => a.notified = {}
     /\ (a.notified # {} /\ a # q)
          => /\ q.op \in {"createGroup", "addGroupMember"}
             /\ a.groupId \in chat_groups'
             /\ a.notified \subseteq Users \ {q.userId}
             /\ \A u \in a.notified : Row(a.groupId, u, FALSE) \in chat_group_members'
             /\ q.op = "addGroupMember" => a.notified = inserted
             /\ q.op = "createGroup"
                  => /\ q.pc = "cg_select"
                     /\ a.notified = MemberIds(a.groupId) \ {q.userId}

C29_AddedNoticeOnlyForInserted == [][C29_Step]_vars

\* a group was created from a list that names a second user: the creation is
\* answered 201 and the one notification is for that user
C29_Witness ==
  /\ greq[FirstSlot].op = "createGroup" /\ greq[FirstSlot].status = 201
  /\ Cardinality(greq[FirstSlot].notified) = 1
  /\ greq[FirstSlot].notified \subseteq MemberIds(greq[FirstSlot].groupId) \ AdminIds(greq[FirstSlot].groupId)

\* C30: once a group has no member left its row persists and it stays without
\* members for ever: every later addGroupMember, removeGroupMember,
\* updateGroup, deleteGroup, leaveGroup, sendGroupMessage and getGroupMessages
\* request on it, by any user, is answered 403 at its first query (500 if that
\* query is rejected by storage), so no row of the group is written again and
\* the group row is never deleted.  Requests are served one at a time.
C30_Empty(g) == g \in chat_groups /\ MemberIds(g) = {}

C30_FirstQuery ==
  {"ag_admin", "rm_admin", "ug_admin", "dg_admin", "lv_member", "sg_member", "gm_member"}

C30_Rejected(q, a) ==
  (q.pc \in C30_FirstQuery /\ C30_Empty(q.groupId) /\ a # q)
    => (a.pc = "done" /\ a.status \in {403, 500})

C30_Step ==
  /\ \A g \in GroupIds :
       C30_Empty(g)
         => /\ g \in chat_groups' /\ MemberIdsIn(chat_group_members', g) = {}
            /\ \A r \in Req :
                 /\ greq'[r].groupId = g => greq'[r].pc \in C30_FirstQuery \cup {"done"}
                 /\ sreq'[r].groupId = g => sreq'[r].pc \in C30_FirstQuery \cup {"done"}
  /\ \A r \in Req : C30_Rejected(greq[r], greq'[r]) /\ C30_Rejected(sreq[r], sreq'[r])

====
